---- MODULE Spec2Model ----
(***************************************************************************)
(* A model of the copy-on-write B-tree of btree.h (the implementation      *)
(* section, lines 1657-3014).  Nodes live in a heap of numbered cells;     *)
(* every tree handle holds a root reference, count, height and oom flag.   *)
(* Items are the pairs (key, val) of the tests, compared by key.  Every     *)
(* allocation of an operation may fail.                                    *)
(***************************************************************************)
EXTENDS Integers, Sequences, FiniteSets, TLC

(* ------------------------------ bounds --------------------------------- *)
FanOut   == 4      \* the max_items argument given to btree_new
MaxKey   == 10     \* items are 1..MaxKey
MaxNodes == 24     \* heap cells; an allocation with no free cell fails
MaxTrees == 2      \* tree handles (an original and its clone)
MaxOps   == 2      \* operations applied after the prefix that built the tree
MaxFail  == 3      \* the allocation of an operation that fails (0: none)
MaxVal   == 1      \* items are pairs (key, val) with val in 0..MaxVal

NULL == 0

Keys    == 1..MaxKey
NodeIds == 1..MaxNodes
Handles == 1..MaxTrees
\* the values an item can have (NULL: no item)
ItemVals == 0..((MaxKey + 2) * (MaxVal + 1))

Min(S) == CHOOSE x \in S : \A y \in S : x <= y

\* K applied to the value v: the value of a call is computed once and named
With(v, K(_)) == K(v)

(* --------------------------- configuration ----------------------------- *)
\* btree_new_with_allocator: normalisation of the max_items argument n, a
\* size_t.  deg is at most n/2, so deg*2 - 1 never exceeds n and the
\* arithmetic does not wrap
new_deg(n) == LET deg == n \div 2
              IN IF deg = 0 THEN 128 ELSE IF deg = 1 THEN 2 ELSE deg

\* a normalisation without the upper limit
new_max_items_unclamped(n) == new_deg(n) * 2 - 1

new_max_items(n) ==
    IF new_deg(n) * 2 - 1 > 2045 THEN 2045 ELSE new_deg(n) * 2 - 1

new_min_items(n) == new_max_items(n) \div 2

btree_deg == new_deg(FanOut)

max_items == new_max_items(FanOut)

min_items == new_min_items(FanOut)

\* a function pointer that is NULL
NoFn == "NULL"

(* ------------------------------- heap ---------------------------------- *)
\* a cell that holds no node
FreeCell == [used |-> FALSE, rc |-> 0, leaf |-> TRUE,
             items |-> << >>, children |-> << >>, by |-> NoFn]

\* struct btree after btree_new_for_test: memset 0, then the fields the
\* constructor sets; "by" is the allocator the struct came from
EmptyTree == [live |-> TRUE, root |-> NULL, count |-> 0, height |-> 0,
              oom |-> FALSE, hooks |-> FALSE,
              max_items |-> max_items, min_items |-> min_items,
              elsize |-> 8, compare |-> "compare",
              malloc |-> "malloc_", by |-> "malloc_"]

NoTree == [live |-> FALSE, root |-> NULL, count |-> 0, height |-> 0,
           oom |-> FALSE, hooks |-> FALSE,
           max_items |-> 0, min_items |-> 0,
           elsize |-> 0, compare |-> NoFn,
           malloc |-> NoFn, by |-> NoFn]

\* no item clone is alive
NoClones == [v \in ItemVals |-> 0]

\* a reference to a node: the root pointer of the tree (parent = NULL) or
\* children[idx] of node parent
NoRef == [parent |-> NULL, idx |-> NULL, node |-> NULL]

\* the machine an operation runs on: the heap, the number of allocations
\* made so far, the allocation that fails, the ghost record of misuse, the
\* reference whose copy-on-write was attempted last, the cells the
\* allocator of the calling thread hands out, whether the tree has item
\* callbacks, the number of live clones of every item value, the root
\* splits the operation has made, the rebalances it has made, and the sizes
\* of the halves of every node it has split, and the copies of nodes it
\* has made or tried
Machine(heap, failAt) ==
    [nodes |-> heap, allocs |-> 0, failAt |-> failAt, failed |-> FALSE,
     bad |-> {}, cowref |-> NoRef, arena |-> NodeIds, alloc |-> "malloc_",
     hooks |-> FALSE, clones |-> NoClones, cloned |-> FALSE,
     r |-> "NOCHANGE", prev |-> NULL, popmax |-> NULL, right |-> NULL,
     median |-> NULL, splits |-> << >>, rebals |-> << >>,
     cuts |-> << >>, copies |-> << >>]

\* every store to a node's items, children or nitems goes through here
WrNode(m, id, rec) ==
    [m EXCEPT !.nodes[id] = rec,
              !.bad = IF ~m.nodes[id].used THEN @ \cup {"use_after_free"}
                      ELSE IF m.nodes[id].rc > 0 THEN @ \cup {"write_shared"}
                      ELSE @]

\* btree->free(node)
FreeCellOf(m, id) ==
    [m EXCEPT !.nodes[id] = FreeCell,
              !.bad = (IF ~m.nodes[id].used THEN @ \cup {"double_free"}
                       ELSE IF m.nodes[id].rc > 0 THEN @ \cup {"free_shared"}
                       ELSE @)
                      \cup (IF m.nodes[id].used /\ m.nodes[id].by # m.alloc
                            THEN {"free_by_other"} ELSE {})]

nitems(node) == Len(node.items)

(* -------------------------- node primitives ---------------------------- *)
btree_get_item_at(node, index) == node.items[index + 1]

btree_set_item_at(node, index, item) ==
    [node EXCEPT !.items[index + 1] = item]

\* opens slot index: items [index..n) move to [index+1..n+1), children
\* [index..n] move to [index+1..n+1]; the opened slots keep their old bytes
btree_node_shift_right(node, index) ==
    LET n == nitems(node)
        stale == IF index < n THEN node.items[index + 1] ELSE NULL
    IN [node EXCEPT
          !.items = SubSeq(node.items, 1, index) \o <<stale>>
                    \o SubSeq(node.items, index + 1, n),
          !.children = IF node.leaf THEN << >>
                       ELSE SubSeq(node.children, 1, index)
                            \o <<node.children[index + 1]>>
                            \o SubSeq(node.children, index + 1, n + 1)]

\* removes slot index; for_merge removes the child right of it instead of
\* the child left of it
btree_node_shift_left(node, index, for_merge) ==
    LET n == nitems(node)
        ci == IF for_merge THEN index + 1 ELSE index
    IN [node EXCEPT
          !.items = SubSeq(node.items, 1, index)
                    \o SubSeq(node.items, index + 2, n),
          !.children = IF node.leaf THEN << >>
                       ELSE SubSeq(node.children, 1, ci)
                            \o SubSeq(node.children, ci + 2, n + 1)]

\* appends right's items and children to left
btree_node_join(left, right) ==
    [left EXCEPT !.items = left.items \o right.items,
                 !.children = IF left.leaf THEN << >>
                              ELSE left.children \o right.children]

\* struct pair { int key; int val; }: the items of the tests, numbered so
\* that no item is NULL
pair(key, val) == key * (MaxVal + 1) + val

pair_key(item) == item \div (MaxVal + 1)

pair_val(item) == item % (MaxVal + 1)

\* the comparator of the tests: compare_pairs looks at the keys only
btree_compare(a, b) == pair_key(a) - pair_key(b)

\* bisection over [0, nitems)
RECURSIVE bsearch_loop(_, _, _, _)
bsearch_loop(node, key, i, n) ==
    IF i < n
    THEN LET j == (i + n) \div 2
             cmp == btree_compare(key, btree_get_item_at(node, j))
         IN IF cmp = 0 THEN [found |-> TRUE, i |-> j]
            ELSE IF cmp < 0 THEN bsearch_loop(node, key, i, j)
            ELSE bsearch_loop(node, key, j + 1, n)
    ELSE [found |-> FALSE, i |-> i]

btree_node_bsearch(node, key) == bsearch_loop(node, key, 0, nitems(node))

btree_search(node, key) == btree_node_bsearch(node, key)

(* --------------------------- allocation -------------------------------- *)
\* btree->malloc + memset: the result id is left in r-field "right"
btree_node_new(m, leaf) ==
    LET k == m.allocs + 1
        own == {i \in m.arena : ~m.nodes[i].used}
        free == IF own # {} THEN own ELSE {i \in NodeIds : ~m.nodes[i].used}
    IN IF k = m.failAt \/ free = {}
       THEN [m EXCEPT !.allocs = k, !.right = NULL, !.failed = TRUE]
       ELSE LET id == Min(free)
            IN [m EXCEPT !.allocs = k, !.right = id,
                         !.nodes[id] = [used |-> TRUE, rc |-> 0, leaf |-> leaf,
                                        items |-> << >>, children |-> << >>,
                                        by |-> m.alloc]]

\* btree->item_clone when the callback is set: pair_clone of the tests,
\* which allocates and so fails when the allocator does; "cloned" holds its
\* result
item_clone(m, item) ==
    IF ~m.hooks THEN [m EXCEPT !.cloned = TRUE]
    ELSE LET k == m.allocs + 1
         IN IF k = m.failAt
            THEN [m EXCEPT !.allocs = k, !.failed = TRUE, !.cloned = FALSE]
            ELSE [m EXCEPT !.allocs = k, !.cloned = TRUE,
                           !.clones[item] = @ + 1]

\* btree->item_free when the callback is set
item_free(m, item) ==
    IF ~m.hooks THEN m
    ELSE IF m.clones[item] = 0
    THEN [m EXCEPT !.bad = @ \cup {"item_double_free"}]
    ELSE [m EXCEPT !.clones[item] = @ - 1]

\* item_free on the first n of a sequence of items
RECURSIVE item_free_all(_, _, _)
item_free_all(m, items, n) ==
    IF n = 0 THEN m
    ELSE item_free_all(item_free(m, Head(items)), Tail(items), n - 1)

\* the item_clone loop of btree_node_copy: the number of items cloned
\* before one failed is left in "right" (all of them: cloned is TRUE)
RECURSIVE item_clone_all(_, _, _)
item_clone_all(m, items, i) ==
    IF i = Len(items) THEN [m EXCEPT !.cloned = TRUE, !.right = i]
    ELSE With(item_clone(m, items[i + 1]), LAMBDA m1 :
           IF m1.cloned THEN item_clone_all(m1, items, i + 1)
           ELSE [m1 EXCEPT !.right = i])

\* a reference count that moves by two for every reference
btree_rc_fetch_add_twice(heap, id, delta) ==
    [heap EXCEPT ![id].rc = @ + 2 * delta]

\* btree_rc_fetch_add / btree_rc_fetch_sub
btree_rc_fetch_add(heap, id, delta) == [heap EXCEPT ![id].rc = @ + delta]

\* btree_rc_fetch_add on every id of a sequence of children
RECURSIVE rc_add_all(_, _, _)
rc_add_all(heap, kids, delta) ==
    IF kids = << >> THEN heap
    ELSE rc_add_all(btree_rc_fetch_add(heap, Head(kids), delta),
                    Tail(kids), delta)

\* drop one reference; the last owner frees the node and drops its children
RECURSIVE btree_node_free(_, _)
RECURSIVE node_free_all(_, _)
node_free_all(m, kids) ==
    IF kids = << >> THEN m
    ELSE node_free_all(btree_node_free(m, Head(kids)), Tail(kids))

btree_node_free(m, id) ==
    LET node == m.nodes[id]
        m1 == [m EXCEPT !.nodes[id].rc = @ - 1,
                        !.bad = IF ~node.used THEN @ \cup {"use_after_free"}
                                ELSE @]
    IN IF node.rc > 0 \/ ~node.used THEN m1
       ELSE FreeCellOf(item_free_all(node_free_all(m1, node.children),
                                     node.items, nitems(node)), id)

\* the label failed of btree_node_copy: the references taken on the
\* children are given back, the items cloned so far are freed and so is
\* the new node
node_copy_failed_keeps_items(m, id, id2, cloned) ==
    [FreeCellOf(m, id2) EXCEPT
        !.nodes = rc_add_all(@, m.nodes[id].children, -1),
        !.right = NULL]

\* a failed copy that frees the cloned items and the new node but keeps the
\* references it took on the children
node_copy_failed_keeps_refs(m, id, id2, cloned) ==
    With(item_free_all(m, m.nodes[id].items, cloned), LAMBDA m1 :
      [FreeCellOf(m1, id2) EXCEPT !.right = NULL])

node_copy_failed(m, id, id2, cloned) ==
    With(item_free_all(m, m.nodes[id].items, cloned), LAMBDA m1 :
      [FreeCellOf(m1, id2) EXCEPT
          !.nodes = rc_add_all(@, m.nodes[id].children, -1),
          !.right = NULL])

\* what is remembered of a copy: the node, the new node (NULL when the copy
\* failed), the number of items cloned, and the reference counts, the used
\* cells and the item clones before and after
copy_record(m, o, id, cloned) ==
    [o EXCEPT !.copies = Append(@,
       [of |-> id, copy |-> o.right, node |-> m.nodes[id], cloned |-> cloned,
        rc0 |-> [i \in NodeIds |-> m.nodes[i].rc],
        rc1 |-> [i \in NodeIds |-> o.nodes[i].rc],
        used0 |-> {i \in NodeIds : m.nodes[i].used},
        used1 |-> {i \in NodeIds : o.nodes[i].used},
        clones0 |-> m.clones, clones1 |-> o.clones,
        node1 |-> IF o.right = NULL THEN FreeCell ELSE o.nodes[o.right]])]

\* one-level copy: same child pointers, each child's rc raised by one, and
\* every item cloned when the tree has item callbacks
btree_node_copy(m, id) ==
    With(btree_node_new(m, m.nodes[id].leaf), LAMBDA m1 :
      LET node == m.nodes[id]
          id2 == m1.right
      IN IF id2 = NULL THEN copy_record(m, m1, id, 0)
         ELSE With(item_clone_all(
                     [m1 EXCEPT !.nodes = rc_add_all(@, node.children, 1)],
                     node.items, 0), LAMBDA m2 :
                IF m2.cloned
                THEN copy_record(m,
                        [m2 EXCEPT !.nodes[id2].items = node.items,
                                   !.nodes[id2].children = node.children,
                                   !.right = id2],
                        id, nitems(node))
                ELSE copy_record(m, node_copy_failed(m2, id, id2, m2.right),
                                 id, m2.right)))

\* a root that is written in place although it is shared
btree_cow_root_in_place(m, root) == [m EXCEPT !.r = "OK", !.right = root]

\* btree_cow_node_or(btree->root, ...): r = "NOMEM" when the copy failed,
\* else the (possibly new) node is left in "right"
btree_cow_root(m, root) ==
    IF m.nodes[root].rc > 0
    THEN With(btree_node_copy(m, root), LAMBDA m1 :
           IF m1.right = NULL
           THEN [m1 EXCEPT !.r = "NOMEM",
                           !.cowref = [parent |-> NULL, idx |-> NULL,
                                       node |-> root]]
           ELSE [btree_node_free(m1, root) EXCEPT
                    !.r = "OK", !.right = m1.right,
                    !.cowref = [parent |-> NULL, idx |-> NULL,
                                node |-> root]])
    ELSE [m EXCEPT !.r = "OK", !.right = root]

\* btree_cow_node_or(node->children[i], ...)
btree_cow_child(m, id, i) ==
    LET c == m.nodes[id].children[i + 1]
    IN IF m.nodes[c].rc > 0
       THEN With(btree_node_copy(m, c), LAMBDA m1 :
              IF m1.right = NULL
              THEN [m1 EXCEPT !.r = "NOMEM",
                              !.cowref = [parent |-> id, idx |-> i,
                                          node |-> c]]
              ELSE With(btree_node_free(m1, c), LAMBDA m2 :
                     [WrNode(m2, id, [m2.nodes[id] EXCEPT
                                        !.children[i + 1] = m1.right])
                        EXCEPT !.r = "OK",
                               !.cowref = [parent |-> id, idx |-> i,
                                           node |-> c]]))
       ELSE [m EXCEPT !.r = "OK"]

(* ----------------------------- set ------------------------------------- *)
\* a mutating operation that leaves the oom flag as it found it
begin_op_keeps_oom(t) == t

\* btree->oom = false, the first statement of every mutating operation
begin_op(t) == [t EXCEPT !.oom = FALSE]

\* balanced split: the item at max_items/2 is promoted ("median"), the upper
\* half moves to a fresh right sibling ("right", NULL when allocation fails)
btree_node_split_truncates_first(m, id) ==
    With(btree_node_new(m, m.nodes[id].leaf), LAMBDA m1 :
      LET node == m.nodes[id]
          right == m1.right
          mid == max_items \div 2
          n == Len(node.items)
          cut == [node EXCEPT
                    !.items = SubSeq(node.items, 1, mid),
                    !.children = IF node.leaf THEN << >>
                                 ELSE SubSeq(node.children, 1, mid + 1)]
      IN IF right = NULL THEN WrNode(m1, id, cut)
         ELSE WrNode([m1 EXCEPT
                        !.median = node.items[mid + 1],
                        !.nodes[right].items = SubSeq(node.items, mid + 2, n),
                        !.nodes[right].children =
                            IF node.leaf THEN << >>
                            ELSE SubSeq(node.children, mid + 2, n + 1)],
                     id, cut))

\* the index of the item a split promotes
split_mid(maxi) == maxi \div 2

btree_node_split_x(m, id, maxi) ==
    With(btree_node_new(m, m.nodes[id].leaf), LAMBDA m1 :
      LET node == m.nodes[id]
          right == m1.right
          mid == split_mid(maxi)
          n == nitems(node)
      IN IF right = NULL THEN m1
         ELSE WrNode([m1 EXCEPT
                        !.median = btree_get_item_at(node, mid),
                        !.nodes[right].items = SubSeq(node.items, mid + 2, n),
                        !.nodes[right].children =
                            IF node.leaf THEN << >>
                            ELSE SubSeq(node.children, mid + 2, n + 1),
                        !.cuts = Append(@, [n0 |-> n, left |-> mid,
                                            right |-> n - (mid + 1)])],
                     id,
                     [node EXCEPT
                        !.items = SubSeq(node.items, 1, mid),
                        !.children = IF node.leaf THEN << >>
                                     ELSE SubSeq(node.children, 1, mid + 1)]))

btree_node_split(m, id) == btree_node_split_x(m, id, max_items)

\* a swap that hands back the new item and leaves the stored one in place
btree_swap_item_at_keeps_stored(m, id, i, item) == [m EXCEPT !.prev = item]

\* btree_swap_item_at(btree, node, i, item, BTREE_SPARE_RETURN): the stored
\* item goes to the spare, the new item takes its slot
btree_swap_item_at(m, id, i, item) ==
    [WrNode(m, id, btree_set_item_at(m.nodes[id], i, item))
       EXCEPT !.prev = btree_get_item_at(m.nodes[id], i)]

RECURSIVE btree_node_set(_, _, _)
btree_node_set(m, id, item) ==
    With(btree_search(m.nodes[id], item), LAMBDA s :
      LET node == m.nodes[id]
          i == s.i
      IN IF s.found
         THEN [btree_swap_item_at(m, id, i, item) EXCEPT !.r = "REPLACED"]
         ELSE IF node.leaf
         THEN IF nitems(node) = max_items
              THEN [m EXCEPT !.r = "MUST_SPLIT"]
              ELSE [WrNode(m, id, btree_set_item_at(
                                    btree_node_shift_right(node, i), i, item))
                      EXCEPT !.r = "INSERTED"]
         ELSE With(btree_cow_child(m, id, i), LAMBDA m1 :
           IF m1.r = "NOMEM" THEN m1
           ELSE With(btree_node_set(m1, m1.nodes[id].children[i + 1], item),
                     LAMBDA m2 :
             IF m2.r \in {"INSERTED", "REPLACED", "NOMEM"} THEN m2
             ELSE IF nitems(m2.nodes[id]) = max_items
             THEN [m2 EXCEPT !.r = "MUST_SPLIT"]
             ELSE With(btree_node_split(m2, m1.nodes[id].children[i + 1]),
                       LAMBDA m3 :
               IF m3.right = NULL
               THEN [m3 EXCEPT !.r = "NOMEM"]
               ELSE btree_node_set(
                      WrNode(m3, id,
                             [btree_set_item_at(
                                btree_node_shift_right(m3.nodes[id], i),
                                i, m3.median)
                                EXCEPT !.children[i + 2] = m3.right]),
                      id, item)))))

\* the result of a facade operation: the machine, the tree, the returned item
Out(m, t, ret) == [m |-> m, t |-> t, ret |-> ret]

\* a new root that forgets to count the level it adds
grow_root_same_height(t, new_root) == [t EXCEPT !.root = new_root]

\* btree->root = new_root; btree->height++
grow_root(t, new_root) == [t EXCEPT !.root = new_root, !.height = @ + 1]

\* a root split that installs the new root although the split failed
split_root_unchecked(m, t) ==
    With(btree_node_new(m, FALSE), LAMBDA m2 :
      LET old_root == t.root
          new_root == m2.right
      IN IF new_root = NULL THEN Out(m2, [t EXCEPT !.oom = TRUE], NULL)
         ELSE With(btree_node_split(m2, old_root), LAMBDA m3 :
                Out(WrNode(m3, new_root,
                           [m3.nodes[new_root] EXCEPT
                              !.items = IF m3.right = NULL THEN << >>
                                        ELSE <<m3.median>>,
                              !.children =
                                  IF m3.right = NULL THEN <<old_root>>
                                  ELSE <<old_root, m3.right>>]),
                    [grow_root(t, new_root) EXCEPT
                       !.oom = (m3.right = NULL)],
                    NULL)))

\* a new root whose children are in the wrong order
root_of_split_swapped(node, old_root, median, right) ==
    [node EXCEPT !.items = <<median>>, !.children = <<right, old_root>>]

\* btree->root->children[0] = old_root; item 0 = median;
\* btree->root->children[1] = right; btree->root->nitems = 1
root_of_split(node, old_root, median, right) ==
    [node EXCEPT !.items = <<median>>, !.children = <<old_root, right>>]

\* the root must split: a new branch takes the promoted median as its only
\* item, with the old root and the new right node as its children
split_root(m, t) ==
    With(btree_node_new(m, FALSE), LAMBDA m2 :
      LET old_root == t.root
          new_root == m2.right
      IN IF new_root = NULL THEN Out(m2, [t EXCEPT !.oom = TRUE], NULL)
         ELSE With(btree_node_split(m2, old_root), LAMBDA m3 :
                IF m3.right = NULL
                THEN Out(FreeCellOf(m3, new_root), [t EXCEPT !.oom = TRUE],
                         NULL)
                ELSE Out(WrNode([m3 EXCEPT !.splits = Append(@,
                                    [old |-> old_root, median |-> m3.median,
                                     right |-> m3.right,
                                     root |-> new_root])],
                                new_root,
                                root_of_split(m3.nodes[new_root], old_root,
                                              m3.median, m3.right)),
                         grow_root(t, new_root), NULL)))

\* the "set:" loop of btree_set0: split the root as long as it must split
RECURSIVE set0_loop(_, _, _)
set0_loop(m, t, item) ==
    With(btree_node_set(m, t.root, item), LAMBDA m1 :
      IF m1.r = "REPLACED" THEN Out(item_free(m1, m1.prev), t, m1.prev)
      ELSE IF m1.r = "INSERTED"
      THEN Out(m1, [t EXCEPT !.count = @ + 1], NULL)
      ELSE IF m1.r = "NOMEM" THEN Out(m1, [t EXCEPT !.oom = TRUE], NULL)
      ELSE With(split_root(m1, t), LAMBDA o :
             IF o.t.oom THEN o ELSE set0_loop(o.m, o.t, item)))

\* btree_set0 from the test of the root on, up to the label oom
set0_store(m, t, item) ==
    IF t.root = NULL
    THEN With(btree_node_new(m, TRUE), LAMBDA m1 :
           IF m1.right = NULL THEN Out(m1, [t EXCEPT !.oom = TRUE], NULL)
           ELSE Out(WrNode(m1, m1.right, [m1.nodes[m1.right] EXCEPT
                                            !.items = <<item>>]),
                    [t EXCEPT !.root = m1.right, !.count = @ + 1,
                              !.height = @ + 1],
                    NULL))
    ELSE With(btree_cow_root(m, t.root), LAMBDA m1 :
           IF m1.r = "NOMEM" THEN Out(m1, [t EXCEPT !.oom = TRUE], NULL)
           ELSE set0_loop(m1, [t EXCEPT !.root = m1.right], item))

\* the label oom of btree_set0 and of btree_load: the clone made of the
\* item is freed
set0_oom(o, item, item_cloned) ==
    IF item_cloned THEN Out(item_free(o.m, item), o.t, o.ret) ELSE o

\* the item is cloned first unless the caller has cloned it
btree_set0(m, t0, item, no_item_clone) ==
    LET t == begin_op(t0)
    IN With(IF no_item_clone THEN [m EXCEPT !.cloned = TRUE]
            ELSE item_clone(m, item), LAMBDA mc :
         IF ~mc.cloned THEN Out(mc, [t EXCEPT !.oom = TRUE], NULL)
         ELSE With(set0_store(mc, t, item), LAMBDA o :
                IF o.t.oom THEN set0_oom(o, item, ~no_item_clone) ELSE o))

btree_set(m, t, item) == btree_set0(m, t, item, FALSE)

\* a merge that builds the merged node in a scratch node it allocates, and
\* gives up when that allocation fails
rebalance_merge_allocates(m, id, i) ==
    With(btree_node_new(m, TRUE), LAMBDA m0 :
      IF m0.right = NULL THEN m0
      ELSE LET node == m0.nodes[id]
               l == node.children[i + 1]
               r == node.children[i + 2]
               left1 == [m0.nodes[l] EXCEPT
                           !.items = Append(@, btree_get_item_at(node, i))]
               m1 == WrNode(FreeCellOf(m0, m0.right), l,
                            btree_node_join(left1, m0.nodes[r]))
               m2 == FreeCellOf(m1, r)
           IN WrNode(m2, id, btree_node_shift_left(node, i, TRUE)))

(* ---------------------------- delete ----------------------------------- *)
\* merge (left, item, right) into left, free right, and drop the separator
\* and the right child from the parent
rebalance_merge(m, id, i) ==
    LET node == m.nodes[id]
        l == node.children[i + 1]
        r == node.children[i + 2]
        left1 == [m.nodes[l] EXCEPT
                    !.items = Append(@, btree_get_item_at(node, i))]
        m1 == WrNode(m, l, btree_node_join(left1, m.nodes[r]))
        m2 == FreeCellOf(m1, r)
    IN WrNode(m2, id, btree_node_shift_left(node, i, TRUE))

\* move left -> right over one slot: the separator becomes right's first
\* item, left's last item becomes the separator
rebalance_left_to_right(m, id, i) ==
    LET node == m.nodes[id]
        l == node.children[i + 1]
        r == node.children[i + 2]
        left == m.nodes[l]
        right1 == btree_set_item_at(btree_node_shift_right(m.nodes[r], 0), 0,
                                    btree_get_item_at(node, i))
        right2 == IF left.leaf THEN right1
                  ELSE [right1 EXCEPT !.children[1] =
                          left.children[nitems(left) + 1]]
        m1 == WrNode(m, r, right2)
        m2 == WrNode(m1, id, btree_set_item_at(node, i,
                 btree_get_item_at(left, nitems(left) - 1)))
    IN WrNode(m2, l,
              [left EXCEPT
                 !.items = SubSeq(@, 1, nitems(left) - 1),
                 !.children = IF left.leaf THEN << >>
                              ELSE SubSeq(@, 1, nitems(left))])

\* a move right -> left that leaves the old separator in the parent
rebalance_right_to_left_keeps_separator(m, id, i) ==
    LET node == m.nodes[id]
        l == node.children[i + 1]
        r == node.children[i + 2]
        right == m.nodes[r]
        left1 == [m.nodes[l] EXCEPT
                    !.items = Append(@, btree_get_item_at(node, i)),
                    !.children = IF m.nodes[l].leaf THEN << >>
                                 ELSE Append(@, right.children[1])]
        m1 == WrNode(m, l, left1)
    IN WrNode(m1, r, btree_node_shift_left(right, 0, FALSE))

\* move right -> left: the separator becomes left's last item, right's
\* first item becomes the separator
rebalance_right_to_left(m, id, i) ==
    LET node == m.nodes[id]
        l == node.children[i + 1]
        r == node.children[i + 2]
        right == m.nodes[r]
        left1 == [m.nodes[l] EXCEPT
                    !.items = Append(@, btree_get_item_at(node, i)),
                    !.children = IF m.nodes[l].leaf THEN << >>
                                 ELSE Append(@, right.children[1])]
        m1 == WrNode(m, l, left1)
        m2 == WrNode(m1, id, btree_set_item_at(node, i,
                 btree_get_item_at(right, 0)))
    IN WrNode(m2, r, btree_node_shift_left(right, 0, FALSE))

\* a rebalance that also merges two children holding max_items items
rebalance_kind_merges_full(left, right) ==
    IF nitems(left) + nitems(right) <= max_items THEN "merge"
    ELSE IF nitems(left) > nitems(right) THEN "left_to_right"
    ELSE "right_to_left"

\* what a rebalance does with the two children
rebalance_kind(left, right) ==
    IF nitems(left) + nitems(right) < max_items THEN "merge"
    ELSE IF nitems(left) > nitems(right) THEN "left_to_right"
    ELSE "right_to_left"

\* rebalance the children around separator i of node id: merge them, or move
\* one item from the fuller sibling through the parent
btree_node_rebalance(m, id, i0) ==
    LET node == m.nodes[id]
        i == IF i0 = nitems(node) THEN i0 - 1 ELSE i0
        l == node.children[i + 1]
        r == node.children[i + 2]
        kind == rebalance_kind(m.nodes[l], m.nodes[r])
        m1 == IF kind = "merge" THEN rebalance_merge(m, id, i)
              ELSE IF kind = "left_to_right"
              THEN rebalance_left_to_right(m, id, i)
              ELSE rebalance_right_to_left(m, id, i)
    IN [m1 EXCEPT !.rebals = Append(@,
          [kind |-> kind, i |-> i,
           node0 |-> node, left0 |-> m.nodes[l], right0 |-> m.nodes[r],
           node1 |-> m1.nodes[id], left1 |-> m1.nodes[l],
           right1 |-> m1.nodes[r]])]

\* a delete by key that takes the last item of the node holding the key
delete_target_last_of_node(node, act, key) ==
    IF act = "DELKEY"
    THEN [found |-> btree_search(node, key).found,
          i |-> IF btree_search(node, key).found THEN nitems(node) - 1
                ELSE btree_search(node, key).i]
    ELSE IF act = "POPMAX" THEN [found |-> TRUE, i |-> nitems(node) - 1]
    ELSE IF act = "POPFRONT" THEN [found |-> node.leaf, i |-> 0]
    ELSE IF ~node.leaf THEN [found |-> FALSE, i |-> nitems(node)]
    ELSE [found |-> TRUE, i |-> nitems(node) - 1]

\* where a delete action looks in a node: (found, i)
delete_target(node, act, key) ==
    IF act = "DELKEY" THEN btree_search(node, key)
    ELSE IF act = "POPMAX" THEN [found |-> TRUE, i |-> nitems(node) - 1]
    ELSE IF act = "POPFRONT" THEN [found |-> node.leaf, i |-> 0]
    ELSE IF ~node.leaf THEN [found |-> FALSE, i |-> nitems(node)]
    ELSE [found |-> TRUE, i |-> nitems(node) - 1]

\* copy-on-write of children[i] only
cow_child_without_neighbour(m, id, i) == btree_cow_child(m, id, i)

\* copy-on-write of children[i] and of the neighbour a rebalance would touch
cow_child_and_neighbour(m, id, i) ==
    With(btree_cow_child(m, id, i), LAMBDA m1 :
      IF m1.r = "NOMEM" THEN m1
      ELSE btree_cow_child(m1, id,
             IF i = nitems(m1.nodes[id]) THEN i - 1 ELSE i + 1))

\* dst names the spare the removed item is copied to: "prev" is
\* BTREE_SPARE_RETURN, "popmax" is BTREE_SPARE_POPMAX
RECURSIVE btree_node_delete(_, _, _, _, _)
btree_node_delete(m, id, act, key, dst) ==
    With(delete_target(m.nodes[id], act, key), LAMBDA s :
      LET node == m.nodes[id]
          i == IF s.found /\ act = "POPMAX" THEN s.i + 1 ELSE s.i
      IN IF node.leaf
         THEN IF s.found
              THEN [WrNode(m, id, btree_node_shift_left(node, s.i, FALSE))
                      EXCEPT !.r = "DELETED",
                             ![dst] = btree_get_item_at(node, s.i)]
              ELSE [m EXCEPT !.r = "NOCHANGE"]
         ELSE With(cow_child_and_neighbour(
                     IF s.found /\ act # "POPMAX"
                     THEN [m EXCEPT ![dst] = btree_get_item_at(node, i)]
                     ELSE m, id, i),
                   LAMBDA m1 :
           IF m1.r = "NOMEM" THEN m1
           ELSE With(btree_node_delete(
                       m1, m1.nodes[id].children[i + 1],
                       IF ~s.found THEN act ELSE "POPMAX",
                       IF ~s.found THEN key ELSE NULL,
                       IF s.found /\ act # "POPMAX" THEN "popmax" ELSE dst),
                     LAMBDA m2 :
             With(IF s.found /\ act # "POPMAX" /\ m2.r # "NOMEM"
                  THEN WrNode(m2, id, btree_set_item_at(
                                        m2.nodes[id], i, m2.popmax))
                  ELSE m2,
                  LAMBDA m3 :
               LET c == m1.nodes[id].children[i + 1]
                   result == IF s.found /\ m2.r # "NOMEM" THEN "DELETED"
                             ELSE m2.r
               IN IF result # "DELETED" THEN [m3 EXCEPT !.r = result]
                  ELSE IF nitems(m3.nodes[c]) < min_items
                  THEN [btree_node_rebalance(m3, id, i)
                          EXCEPT !.r = "DELETED"]
                  ELSE [m3 EXCEPT !.r = "DELETED"]))))

\* a root that is replaced without the height being lowered
drop_root_keeps_height(t, node) ==
    [t EXCEPT !.root = IF ~node.leaf THEN node.children[1] ELSE NULL]

\* the root has no items left: its only child, or nothing if it is a leaf,
\* becomes the root, and height is lowered
drop_root(t, node) ==
    [t EXCEPT !.root = IF ~node.leaf THEN node.children[1] ELSE NULL,
              !.height = @ - 1]

btree_delete0(m, t0, act, key) ==
    LET t == begin_op(t0)
    IN IF t.root = NULL THEN Out(m, t, NULL)
       ELSE With(btree_cow_root(m, t.root), LAMBDA m1 :
         IF m1.r = "NOMEM" THEN Out(m1, [t EXCEPT !.oom = TRUE], NULL)
         ELSE With(btree_node_delete(m1, m1.right, act, key, "prev"),
                   LAMBDA m2 :
           LET root == m1.right
               t1 == [t EXCEPT !.root = root]
           IN IF m2.r = "NOCHANGE" THEN Out(m2, t1, NULL)
              ELSE IF m2.r = "NOMEM"
              THEN Out(m2, [t1 EXCEPT !.oom = TRUE], NULL)
              ELSE IF nitems(m2.nodes[root]) = 0
              THEN Out(item_free(FreeCellOf(m2, root), m2.prev),
                       [drop_root(t1, m2.nodes[root]) EXCEPT
                          !.count = @ - 1],
                       m2.prev)
              ELSE Out(item_free(m2, m2.prev),
                       [t1 EXCEPT !.count = @ - 1], m2.prev)))

btree_delete(m, t, key) == btree_delete0(m, t, "DELKEY", key)

(* ----------------------------- pops ------------------------------------ *)
\* a leaf may be popped in place as long as it holds min_items items
leaf_has_spare_at_min(node) == nitems(node) >= min_items

\* node->nitems > btree->min_items: the leaf can lose an item in place
leaf_has_spare(node) == nitems(node) > min_items

\* a pop_min that removes in place whatever the leaf holds
RECURSIVE pop_min_loop_in_place(_, _, _)
pop_min_loop_in_place(m, t, id) ==
    LET node == m.nodes[id]
    IN IF node.leaf
       THEN Out(item_free(
                  WrNode(m, id, btree_node_shift_left(node, 0, FALSE)),
                  btree_get_item_at(node, 0)),
                [t EXCEPT !.count = @ - 1],
                btree_get_item_at(node, 0))
       ELSE With(btree_cow_child(m, id, 0), LAMBDA m1 :
              IF m1.r = "NOMEM" THEN Out(m1, [t EXCEPT !.oom = TRUE], NULL)
              ELSE pop_min_loop_in_place(m1, t, m1.nodes[id].children[1]))

\* walk down the first children, copying shared nodes; remove in place at a
\* leaf with more than min_items items, else fall back to the generic delete
RECURSIVE pop_min_loop(_, _, _)
pop_min_loop(m, t, id) ==
    LET node == m.nodes[id]
    IN IF node.leaf
       THEN IF leaf_has_spare(node)
            THEN Out(item_free(
                       WrNode(m, id, btree_node_shift_left(node, 0, FALSE)),
                       btree_get_item_at(node, 0)),
                     [t EXCEPT !.count = @ - 1],
                     btree_get_item_at(node, 0))
            ELSE btree_delete0(m, t, "POPFRONT", NULL)
       ELSE With(btree_cow_child(m, id, 0), LAMBDA m1 :
              IF m1.r = "NOMEM" THEN Out(m1, [t EXCEPT !.oom = TRUE], NULL)
              ELSE pop_min_loop(m1, t, m1.nodes[id].children[1]))

btree_pop_min(m, t0) ==
    LET t == begin_op(t0)
    IN IF t.root = NULL THEN btree_delete0(m, t, "POPFRONT", NULL)
       ELSE With(btree_cow_root(m, t.root), LAMBDA m1 :
              IF m1.r = "NOMEM" THEN Out(m1, [t EXCEPT !.oom = TRUE], NULL)
              ELSE pop_min_loop(m1, [t EXCEPT !.root = m1.right], m1.right))

\* a pop_max that returns the first item of the leaf
pop_max_index_first(node) == 0

\* size_t i = node->nitems-1 of btree_pop_max
pop_max_index(node) == nitems(node) - 1

RECURSIVE pop_max_loop(_, _, _)
pop_max_loop(m, t, id) ==
    LET node == m.nodes[id]
        n == nitems(node)
    IN IF node.leaf
       THEN IF leaf_has_spare(node)
            THEN Out(item_free(
                       WrNode(m, id, [node EXCEPT
                                        !.items = SubSeq(@, 1, n - 1)]),
                       btree_get_item_at(node, pop_max_index(node))),
                     [t EXCEPT !.count = @ - 1],
                     btree_get_item_at(node, pop_max_index(node)))
            ELSE btree_delete0(m, t, "POPBACK", NULL)
       ELSE With(btree_cow_child(m, id, n), LAMBDA m1 :
              IF m1.r = "NOMEM" THEN Out(m1, [t EXCEPT !.oom = TRUE], NULL)
              ELSE pop_max_loop(m1, t, m1.nodes[id].children[n + 1]))

btree_pop_max(m, t0) ==
    LET t == begin_op(t0)
    IN IF t.root = NULL THEN btree_delete0(m, t, "POPBACK", NULL)
       ELSE With(btree_cow_root(m, t.root), LAMBDA m1 :
              IF m1.r = "NOMEM" THEN Out(m1, [t EXCEPT !.oom = TRUE], NULL)
              ELSE pop_max_loop(m1, [t EXCEPT !.root = m1.right], m1.right))

(* ----------------------------- load ------------------------------------ *)
\* walk down the last children; append at the tail of the rightmost leaf
\* when it has room and the item is greater than its last item, else set
\* an append that does not count the item
load_append_uncounted(m, t, id, item) ==
    Out(WrNode(m, id, [m.nodes[id] EXCEPT !.items = Append(@, item)]),
        t, NULL)

\* an append that stores the item in the last used slot
load_append_over_last(m, t, id, item) ==
    Out(WrNode(m, id, btree_set_item_at(m.nodes[id], nitems(m.nodes[id]) - 1,
                                        item)),
        [t EXCEPT !.count = @ + 1], NULL)

\* the fast path of btree_load: the item becomes the last item of the
\* rightmost leaf and is counted
load_append(m, t, id, item) ==
    Out(WrNode(m, id, [m.nodes[id] EXCEPT !.items = Append(@, item)]),
        [t EXCEPT !.count = @ + 1], NULL)

RECURSIVE load_loop(_, _, _, _)
load_loop(m, t, id, item) ==
    LET node == m.nodes[id]
        n == nitems(node)
    IN IF node.leaf
       THEN IF n = max_items
               \/ btree_compare(item, btree_get_item_at(node, n - 1)) <= 0
            THEN With(btree_set0(m, t, item, TRUE), LAMBDA o :
                   IF ~o.t.oom THEN o ELSE Out(o.m, o.t, NULL))
            ELSE load_append(m, t, id, item)
       ELSE With(btree_cow_child(m, id, n), LAMBDA m1 :
              IF m1.r = "NOMEM" THEN Out(m1, [t EXCEPT !.oom = TRUE], NULL)
              ELSE load_loop(m1, t, m1.nodes[id].children[n + 1], item))

\* btree_load from the copy of the root on, up to the label oom
load_store(m, t, item) ==
    With(btree_cow_root(m, t.root), LAMBDA m1 :
      IF m1.r = "NOMEM" THEN Out(m1, [t EXCEPT !.oom = TRUE], NULL)
      ELSE load_loop(m1, [t EXCEPT !.root = m1.right], m1.right, item))

btree_load(m, t0, item) ==
    LET t == begin_op(t0)
    IN IF t.root = NULL THEN btree_set0(m, t, item, FALSE)
       ELSE With(item_clone(m, item), LAMBDA mc :
              IF ~mc.cloned THEN Out(mc, [t EXCEPT !.oom = TRUE], NULL)
              ELSE With(load_store(mc, t, item), LAMBDA o :
                     IF o.t.oom THEN set0_oom(o, item, TRUE) ELSE o))

(* ----------------------- clear, free, clone ---------------------------- *)
btree_clear(m, t) ==
    Out(IF t.root # NULL THEN btree_node_free(m, t.root) ELSE m,
        [t EXCEPT !.oom = FALSE, !.root = NULL, !.count = 0, !.height = 0],
        NULL)

btree_free(m, t) ==
    Out([btree_clear(m, t).m EXCEPT
           !.bad = IF t.by # t.malloc THEN @ \cup {"free_by_other"} ELSE @],
        NoTree, NULL)

\* a clone that starts out as a new, empty tree
btree_clone_empty(m, t) ==
    LET k == m.allocs + 1
    IN IF k = m.failAt
       THEN Out([m EXCEPT !.allocs = k, !.failed = TRUE], NoTree, NULL)
       ELSE Out([m EXCEPT !.allocs = k], EmptyTree, NULL)

\* the new handle is a copy of the struct; the root's rc is raised by one.
\* "t" of the result is the clone, NoTree when its allocation failed
btree_clone(m, t) ==
    LET k == m.allocs + 1
    IN IF k = m.failAt
       THEN Out([m EXCEPT !.allocs = k, !.failed = TRUE], NoTree, NULL)
       ELSE Out([m EXCEPT !.allocs = k,
                          !.nodes = IF t.root # NULL
                                    THEN btree_rc_fetch_add(@, t.root, 1)
                                    ELSE @],
                [t EXCEPT !.by = t.malloc], NULL)

\* btree_set_item_callbacks with the callbacks of the tests
btree_set_item_callbacks(m, t) == Out(m, [t EXCEPT !.hooks = TRUE], NULL)

(* --------------------------- reading ----------------------------------- *)
\* node_walk of the tests: the in-order sequence of the subtree of id
RECURSIVE node_walk(_, _)
RECURSIVE walk_from(_, _, _)
walk_from(heap, node, i) ==
    IF i > nitems(node) THEN << >>
    ELSE (IF node.leaf THEN << >> ELSE node_walk(heap, node.children[i + 1]))
         \o (IF i < nitems(node) THEN <<node.items[i + 1]>> ELSE << >>)
         \o walk_from(heap, node, i + 1)

node_walk(heap, id) == walk_from(heap, heap[id], 0)

btree_walk(heap, t) == IF t.root # NULL THEN node_walk(heap, t.root) ELSE << >>

\* a lookup that does not look below the node it starts at
RECURSIVE get0_loop_root_only(_, _, _)
get0_loop_root_only(heap, id, key) ==
    With(btree_search(heap[id], key), LAMBDA s :
      IF s.found THEN btree_get_item_at(heap[id], s.i) ELSE NULL)

\* the loop of btree_get0: search the node, descend into children[i]
RECURSIVE get0_loop(_, _, _)
get0_loop(heap, id, key) ==
    With(btree_search(heap[id], key), LAMBDA s :
      IF s.found THEN btree_get_item_at(heap[id], s.i)
      ELSE IF heap[id].leaf THEN NULL
      ELSE get0_loop(heap, heap[id].children[s.i + 1], key))

btree_get0(heap, t, key) ==
    IF t.root = NULL THEN NULL ELSE get0_loop(heap, t.root, key)

btree_get(heap, t, key) == btree_get0(heap, t, key)

\* the shape of a subtree: leaf flag and number of items of every node, in
\* pre-order
RECURSIVE node_shape(_, _)
RECURSIVE shape_kids(_, _)
shape_kids(heap, kids) ==
    IF kids = << >> THEN << >>
    ELSE node_shape(heap, Head(kids)) \o shape_kids(heap, Tail(kids))

node_shape(heap, id) ==
    <<[leaf |-> heap[id].leaf, nitems |-> nitems(heap[id])]>>
    \o shape_kids(heap, heap[id].children)

btree_shape(heap, t) == IF t.root # NULL THEN node_shape(heap, t.root) ELSE << >>

(* -------------------------- traversals --------------------------------- *)
\* struct iter_ctx of the tests: count and stop_at, and the items the
\* callback was called with
IterCtx(stop) == [seen |-> << >>, count |-> 0, ok |-> TRUE, stop |-> stop]

\* iter(item, udata): false once count has reached stop_at, else the item
\* is counted; ok is what the callback returned
iter(ctx, item) ==
    IF ctx.stop > 0 /\ ctx.count = ctx.stop
    THEN [ctx EXCEPT !.seen = Append(@, item), !.ok = FALSE]
    ELSE [ctx EXCEPT !.seen = Append(@, item), !.count = @ + 1, !.ok = TRUE]

\* a scan that goes on after a child reported that the callback returned
\* false
RECURSIVE btree_node_scan(_, _, _)
RECURSIVE scan_from_ignores_child(_, _, _, _)
scan_from_ignores_child(heap, id, i, ctx) ==
    LET node == heap[id]
    IN IF node.leaf
       THEN IF i < nitems(node)
            THEN With(iter(ctx, btree_get_item_at(node, i)), LAMBDA c1 :
                   IF ~c1.ok THEN c1
                   ELSE scan_from_ignores_child(heap, id, i + 1, c1))
            ELSE [ctx EXCEPT !.ok = TRUE]
       ELSE IF i < nitems(node)
            THEN With(btree_node_scan(heap, node.children[i + 1], ctx),
                      LAMBDA c1 :
                   With(iter(c1, btree_get_item_at(node, i)), LAMBDA c2 :
                     IF ~c2.ok THEN c2
                     ELSE scan_from_ignores_child(heap, id, i + 1, c2)))
            ELSE btree_node_scan(heap, node.children[nitems(node) + 1], ctx)

\* btree_node_scan from slot i on: the loops over the items of a leaf and
\* over the children and items of a branch
RECURSIVE scan_from(_, _, _, _)
scan_from(heap, id, i, ctx) ==
    LET node == heap[id]
    IN IF node.leaf
       THEN IF i < nitems(node)
            THEN With(iter(ctx, btree_get_item_at(node, i)), LAMBDA c1 :
                   IF ~c1.ok THEN c1 ELSE scan_from(heap, id, i + 1, c1))
            ELSE [ctx EXCEPT !.ok = TRUE]
       ELSE IF i < nitems(node)
            THEN With(btree_node_scan(heap, node.children[i + 1], ctx),
                      LAMBDA c1 :
                   IF ~c1.ok THEN c1
                   ELSE With(iter(c1, btree_get_item_at(node, i)), LAMBDA c2 :
                          IF ~c2.ok THEN c2
                          ELSE scan_from(heap, id, i + 1, c2)))
            ELSE btree_node_scan(heap, node.children[nitems(node) + 1], ctx)

btree_node_scan(heap, id, ctx) == scan_from(heap, id, 0, ctx)

\* the for loop of btree_node_ascend: item i, then all of children[i+1]
RECURSIVE ascend_from(_, _, _, _)
ascend_from(heap, id, i, ctx) ==
    LET node == heap[id]
    IN IF i < nitems(node)
       THEN With(iter(ctx, btree_get_item_at(node, i)), LAMBDA c1 :
              IF ~c1.ok THEN c1
              ELSE IF node.leaf THEN ascend_from(heap, id, i + 1, c1)
              ELSE With(btree_node_scan(heap, node.children[i + 2], c1),
                        LAMBDA c2 :
                     IF ~c2.ok THEN c2
                     ELSE ascend_from(heap, id, i + 1, c2)))
       ELSE [ctx EXCEPT !.ok = TRUE]

\* an ascend that does not look into the child the pivot falls into
RECURSIVE btree_node_ascend_skips_child(_, _, _, _)
btree_node_ascend_skips_child(heap, id, pivot, ctx) ==
    With(btree_search(heap[id], pivot), LAMBDA s :
      ascend_from(heap, id, s.i, ctx))

RECURSIVE btree_node_ascend(_, _, _, _)
btree_node_ascend(heap, id, pivot, ctx) ==
    With(btree_search(heap[id], pivot), LAMBDA s :
      IF ~s.found /\ ~heap[id].leaf
      THEN With(btree_node_ascend(heap, heap[id].children[s.i + 1], pivot,
                                  ctx),
                LAMBDA c1 :
             IF ~c1.ok THEN c1 ELSE ascend_from(heap, id, s.i, c1))
      ELSE ascend_from(heap, id, s.i, ctx))

\* btree_ascend_hint with no hint
btree_ascend(heap, t, pivot, ctx) ==
    IF t.root # NULL
    THEN IF pivot = NULL THEN btree_node_scan(heap, t.root, ctx)
         ELSE btree_node_ascend(heap, t.root, pivot, ctx)
    ELSE [ctx EXCEPT !.ok = TRUE]

\* btree_node_reverse from slot i down: item i, then all of children[i]
RECURSIVE btree_node_reverse(_, _, _)
RECURSIVE reverse_from(_, _, _, _)
reverse_from(heap, id, i, ctx) ==
    LET node == heap[id]
    IN With(iter(ctx, btree_get_item_at(node, i)), LAMBDA c1 :
         IF ~c1.ok THEN c1
         ELSE With(IF node.leaf THEN c1
                   ELSE btree_node_reverse(heap, node.children[i + 1], c1),
                   LAMBDA c2 :
                IF ~c2.ok THEN c2
                ELSE IF i = 0 THEN [c2 EXCEPT !.ok = TRUE]
                ELSE reverse_from(heap, id, i - 1, c2)))

btree_node_reverse(heap, id, ctx) ==
    LET node == heap[id]
    IN IF node.leaf THEN reverse_from(heap, id, nitems(node) - 1, ctx)
       ELSE With(btree_node_reverse(heap, node.children[nitems(node) + 1],
                                    ctx),
                 LAMBDA c1 :
              IF ~c1.ok THEN c1
              ELSE reverse_from(heap, id, nitems(node) - 1, c1))

\* a descend that handles a pivot found in the node like one that is not
RECURSIVE btree_node_descend_steps_over_found(_, _, _, _)
btree_node_descend_steps_over_found(heap, id, pivot, ctx) ==
    With(btree_search(heap[id], pivot), LAMBDA s :
      With(IF ~heap[id].leaf
           THEN btree_node_descend_steps_over_found(
                  heap, heap[id].children[s.i + 1], pivot, ctx)
           ELSE ctx,
           LAMBDA c1 :
        IF ~c1.ok THEN c1
        ELSE IF s.i = 0 THEN [c1 EXCEPT !.ok = TRUE]
        ELSE reverse_from(heap, id, s.i - 1, c1)))

RECURSIVE btree_node_descend(_, _, _, _)
btree_node_descend(heap, id, pivot, ctx) ==
    With(btree_search(heap[id], pivot), LAMBDA s :
      IF s.found THEN reverse_from(heap, id, s.i, ctx)
      ELSE With(IF ~heap[id].leaf
                THEN btree_node_descend(heap, heap[id].children[s.i + 1],
                                        pivot, ctx)
                ELSE ctx,
                LAMBDA c1 :
             IF ~c1.ok THEN c1
             ELSE IF s.i = 0 THEN [c1 EXCEPT !.ok = TRUE]
             ELSE reverse_from(heap, id, s.i - 1, c1)))

\* btree_descend_hint with no hint
btree_descend(heap, t, pivot, ctx) ==
    IF t.root # NULL
    THEN IF pivot = NULL THEN btree_node_reverse(heap, t.root, ctx)
         ELSE btree_node_descend(heap, t.root, pivot, ctx)
    ELSE [ctx EXCEPT !.ok = TRUE]

(* ------------------------- the state machine --------------------------- *)
VARIABLES
    nodes,   \* the heap: NodeIds -> node
    tree,    \* Handles -> struct btree
    last,    \* the operation just completed, its input and its result
    ghost,   \* misuse observed so far (writes to shared nodes, ...)
    ops,     \* number of operations applied since Init
    clones,  \* ItemVals -> the number of live clones of the item
    thr      \* Handles -> the thread that owns the handle: its position
             \* inside the operation it is executing

vars == <<nodes, tree, last, ghost, ops, clones, thr>>

Mutators == {"set", "delete", "pop_min", "pop_max", "load"}

\* a call: the operation, its handle, its item and the failing allocation
Call(op, h, k, f) == [op |-> op, h |-> h, k |-> k, f |-> f]

\* the handle btree_clone's result is stored in
FreeHandle(st) == Min({h \in Handles : ~st.tree[h].live} \cup {MaxTrees + 1})

\* the facade operation of a call, run on the machine of state st
RunOn(m, t, c) ==
    CASE c.op = "set"     -> btree_set(m, t, c.k)
      [] c.op = "delete"  -> btree_delete(m, t, c.k)
      [] c.op = "pop_min" -> btree_pop_min(m, t)
      [] c.op = "pop_max" -> btree_pop_max(m, t)
      [] c.op = "load"    -> btree_load(m, t, c.k)
      [] c.op = "clear"   -> btree_clear(m, t)
      [] c.op = "free"    -> btree_free(m, t)
      [] c.op = "clone"   -> btree_clone(m, t)
      [] c.op = "callbacks" -> btree_set_item_callbacks(m, t)

Run(st, c) ==
    RunOn([Machine(st.nodes, c.f) EXCEPT !.hooks = st.tree[c.h].hooks,
                                         !.clones = st.clones,
                                         !.alloc = st.tree[c.h].malloc],
          st.tree[c.h], c)

\* no call
NoCall == [op |-> "none", h |-> NULL, k |-> NULL, ret |-> NULL,
           failed |-> FALSE, pre |-> NoTree, walk0 |-> << >>]

\* what a delete remembers of the call before it when that call was a set
\* on the same handle, and a pop of the pop of the same kind before it
Before(l, c) ==
    IF /\ l.h = c.h
       /\ \/ c.op = "delete" /\ l.op = "set"
          \/ c.op \in {"pop_min", "pop_max"} /\ l.op = c.op
    THEN [op |-> l.op, h |-> l.h, k |-> l.k, ret |-> l.ret,
          failed |-> l.failed, pre |-> l.pre, walk0 |-> l.walk0]
    ELSE NoCall

\* the state after a call
Do(st, c) ==
    With(Run(st, c), LAMBDA o :
      LET target == IF c.op = "clone" THEN FreeHandle(st) ELSE c.h
      IN [nodes |-> o.m.nodes,
          tree  |-> [st.tree EXCEPT ![target] = o.t],
          ghost |-> st.ghost \cup o.m.bad,
          clones |-> o.m.clones,
          last  |-> [op |-> c.op, h |-> c.h, k |-> c.k, ret |-> o.ret,
                     allocs |-> o.m.allocs, failed |-> o.m.failed,
                     splits |-> o.m.splits, rebals |-> o.m.rebals,
                     cuts |-> o.m.cuts, copies |-> o.m.copies,
                     target |-> target, pre |-> st.tree[c.h],
                     walk0 |-> btree_walk(st.nodes, st.tree[c.h]),
                     shape0 |-> btree_shape(st.nodes, st.tree[c.h]),
                     before |-> Before(st.last, c),
                     stop |-> 0, ok |-> TRUE,
                     fails |-> st.last.fails \/ o.m.failed]])

\* the state after a traversal: the tree is as it was, ret holds the items
\* the callback was called with and ok what the traversal returned
DoRead(st, c, stop) ==
    With(IF c.op = "ascend"
         THEN btree_ascend(st.nodes, st.tree[c.h], c.k, IterCtx(stop))
         ELSE btree_descend(st.nodes, st.tree[c.h], c.k, IterCtx(stop)),
         LAMBDA x :
      [st EXCEPT !.last =
          [op |-> c.op, h |-> c.h, k |-> c.k, ret |-> x.seen,
           allocs |-> 0, failed |-> FALSE, splits |-> << >>,
           rebals |-> << >>, cuts |-> << >>, copies |-> << >>,
           target |-> c.h, pre |-> st.tree[c.h],
           walk0 |-> btree_walk(st.nodes, st.tree[c.h]),
           shape0 |-> btree_shape(st.nodes, st.tree[c.h]),
           before |-> NoCall, stop |-> stop, ok |-> x.ok,
           fails |-> st.last.fails]])

\* btree_new: one live handle with an empty tree, nothing allocated
NewState ==
    [nodes |-> [i \in NodeIds |-> FreeCell],
     tree  |-> [h \in Handles |-> IF h = 1 THEN EmptyTree ELSE NoTree],
     ghost |-> {},
     clones |-> NoClones,
     last  |-> [op |-> "new", h |-> 1, k |-> NULL, ret |-> NULL,
                allocs |-> 0, failed |-> FALSE, splits |-> << >>,
                rebals |-> << >>, cuts |-> << >>, copies |-> << >>,
                target |-> 1, pre |-> EmptyTree, walk0 |-> << >>, shape0 |-> << >>,
                before |-> NoCall, stop |-> 0, ok |-> TRUE, fails |-> FALSE]]

RECURSIVE RunAll(_, _)
RunAll(st, calls) ==
    IF calls = << >> \/ ~st.tree[Head(calls).h].live THEN st
    ELSE RunAll(Do(st, Head(calls)), Tail(calls))

\* the loops with which the tests build a tree before exercising it:
\* btree_set of 1..n in ascending order, optionally followed by btree_clone
SetAscending(n) == [i \in 1..n |-> Call("set", 1, pair(i, 0), 0)]

\* btree_set of every second key, which leaves keys to insert between the
\* stored ones
SetEven(n) == [i \in 1..n |-> Call("set", 1, pair(2 * i, 0), 0)]

Prefixes ==
    { << >>,
      SetEven(MaxKey \div 2),
      SetAscending(9),
      SetAscending(10),
      SetAscending(9) \o <<Call("clone", 1, NULL, 0)>>,
      SetAscending(10) \o <<Call("clone", 1, NULL, 0)>> }

\* the handles that hold a tree
LiveHandles == {h \in Handles : tree[h].live}

State == [nodes |-> nodes, tree |-> tree, ghost |-> ghost, last |-> last,
          clones |-> clones]

Becomes(st) ==
    /\ nodes' = st.nodes
    /\ tree' = st.tree
    /\ ghost' = st.ghost
    /\ last' = st.last
    /\ clones' = st.clones

\* a thread that is not inside an operation; expect is the in-order content
\* its own operations produce, before the content its completed operations
\* have produced
IdleThread(w) ==
    [pc |-> "idle", call |-> Call("new", NULL, NULL, 0), ref |-> NoRef,
     n2 |-> NULL, i |-> 0, stack |-> << >>, before |-> w, expect |-> w,
     nops |-> 0, overlap |-> FALSE]

InitFrom(P) ==
    /\ \E st \in {RunAll(NewState, p) : p \in P} :
         /\ nodes = st.nodes
         /\ tree = st.tree
         /\ ghost = st.ghost
         /\ last = st.last
         /\ clones = st.clones
         /\ thr = [t \in Handles |->
                      IdleThread(btree_walk(st.nodes, st.tree[t]))]
    /\ ops = 0

Init == InitFrom(Prefixes)

\* a call is taken with a failing allocation only when the operation gets
\* as far as that allocation
Step(c) ==
    /\ ops < MaxOps
    /\ \E st \in {Do(State, c)} :
          /\ c.f <= st.last.allocs
          /\ Becomes(st)
    /\ ops' = ops + 1
    /\ UNCHANGED thr

\* the operations of the API, each called on a live handle
BtreeSet ==
    \E h \in Handles, k \in Keys, f \in 0..MaxFail :
        /\ tree[h].live
        /\ Step(Call("set", h, pair(k, MaxVal), f))

BtreeDelete ==
    \E h \in Handles, k \in Keys, f \in 0..MaxFail :
        /\ tree[h].live
        /\ Step(Call("delete", h, pair(k, 0), f))

BtreePopMin ==
    \E h \in Handles, f \in 0..MaxFail :
        /\ tree[h].live
        /\ Step(Call("pop_min", h, NULL, f))

BtreePopMax ==
    \E h \in Handles, f \in 0..MaxFail :
        /\ tree[h].live
        /\ Step(Call("pop_max", h, NULL, f))

BtreeLoad ==
    \E h \in Handles, k \in Keys, f \in 0..MaxFail :
        /\ tree[h].live
        /\ Step(Call("load", h, pair(k, MaxVal), f))

BtreeClear ==
    \E h \in Handles :
        /\ tree[h].live
        /\ Step(Call("clear", h, NULL, 0))

BtreeFree ==
    \E h \in Handles :
        /\ tree[h].live
        /\ Step(Call("free", h, NULL, 0))

\* btree_clone needs a handle to store its result in
BtreeClone ==
    \E h \in Handles, f \in 0..1 :
        /\ tree[h].live
        /\ \E h2 \in Handles : ~tree[h2].live
        /\ Step(Call("clone", h, NULL, f))

Next ==
    \/ BtreeSet
    \/ BtreeDelete
    \/ BtreePopMin
    \/ BtreePopMax
    \/ BtreeLoad
    \/ BtreeClear
    \/ BtreeFree
    \/ BtreeClone

Spec == Init /\ [][Next]_vars

(* ------------- bulk loading next to repeated btree_set ----------------- *)
\* test_btree_load: one tree is filled by btree_load and another by
\* btree_set with the same items, in strictly ascending order
InitLoad ==
    /\ \E st \in {[NewState EXCEPT !.tree[2] = EmptyTree]} :
         /\ nodes = st.nodes
         /\ tree = st.tree
         /\ ghost = st.ghost
         /\ last = st.last
         /\ clones = st.clones
         /\ thr = [t \in Handles |-> IdleThread(<< >>)]
    /\ ops = 0

\* the keys above every key stored in the loaded tree
Above(w) == {k \in Keys : \A i \in 1..Len(w) : pair_key(w[i]) < k}

\* the next item is loaded into tree 1 and set in tree 2
LoadAndSet ==
    \E k \in Above(btree_walk(nodes, tree[1])) :
        /\ \E st \in {RunAll(State, <<Call("load", 1, pair(k, 0), 0),
                                       Call("set", 2, pair(k, 0), 0)>>)} :
              Becomes(st)
        /\ UNCHANGED <<ops, thr>>

\* OOM_WAIT: a load that fails on an allocation is called again
LoadFails ==
    \E k \in Above(btree_walk(nodes, tree[1])), f \in 1..MaxFail :
        /\ \E st \in {Do(State, Call("load", 1, pair(k, 0), f))} :
              /\ st.last.failed
              /\ Becomes(st)
        /\ UNCHANGED <<ops, thr>>

NextLoad ==
    \/ LoadAndSet
    \/ LoadFails

SpecLoad == InitLoad /\ [][NextLoad]_vars

(* --------------------- runs that end in a traversal -------------------- *)
\* the pivots of the tests: none, every key, and a key below and above all
Pivots == {NULL} \cup {pair(k, MaxVal) : k \in 0..(MaxKey + 1)}

\* stop_at of the tests: the number of items after which the callback
\* returns false (0: never)
Stops == {0, 1, 3}

\* a traversal is the last call of a run
Traverse(c, stop) ==
    /\ ops < MaxOps
    /\ \E st \in {DoRead(State, c, stop)} : Becomes(st)
    /\ ops' = MaxOps
    /\ UNCHANGED thr

BtreeAscend ==
    \E h \in Handles, p \in Pivots, stop \in Stops :
        /\ tree[h].live
        /\ Traverse(Call("ascend", h, p, 0), stop)

BtreeDescend ==
    \E h \in Handles, p \in Pivots, stop \in Stops :
        /\ tree[h].live
        /\ Traverse(Call("descend", h, p, 0), stop)

NextIter ==
    \/ BtreeSet
    \/ BtreeDelete
    \/ BtreeAscend
    \/ BtreeDescend

SpecIter == Init /\ [][NextIter]_vars

(* ------- the earlier btree_load, which caches the last leaf ------------ *)
\* max_items of the tests of that version
DEF_MAX_ITEMS == 6

\* the most calls of a run of loads
MaxLoads == 3

\* btree_new: max_items 0 means 256, an odd value is lowered by one and the
\* result is kept within 4..4096
old_max_items(arg) ==
    IF arg = 0 THEN 256
    ELSE LET even == arg - (arg % 2)
         IN IF even < 4 THEN 4 ELSE IF even > 4096 THEN 4096 ELSE even

old_min_items(arg) == (old_max_items(arg) * 40) \div 100

bt_max_items == old_max_items(DEF_MAX_ITEMS)

bt_min_items == old_min_items(DEF_MAX_ITEMS)

\* struct btree of that version after btree_new: lnode is the cached leaf
\* and litem the cached slot in it, counted from 1 (NULL: none)
NewLoadTree(arg) ==
    [live |-> TRUE, root |-> NULL, count |-> 0, height |-> 0,
     oom |-> FALSE, lnode |-> NULL, litem |-> NULL,
     max_items |-> old_max_items(arg), min_items |-> old_min_items(arg)]

LoadTree == NewLoadTree(DEF_MAX_ITEMS)

\* gimme_leaf and gimme_branch: a node of the pool, which fill_pool has
\* filled (malloc does not fail in these runs)
gimme_node(heap, leaf) ==
    LET id == Min({i \in NodeIds : ~heap[i].used})
    IN [nodes |-> [heap EXCEPT ![id] = [used |-> TRUE, rc |-> 0,
                                        leaf |-> leaf, items |-> << >>,
                                        children |-> << >>]],
        id |-> id]

\* the bisection of node_find without a hint
RECURSIVE node_find_loop(_, _, _, _)
node_find_loop(node, key, low, high) ==
    IF low > high THEN [found |-> FALSE, index |-> low]
    ELSE LET mid == (low + high) \div 2
             cmp == btree_compare(key, btree_get_item_at(node, mid))
         IN IF cmp = 0 THEN [found |-> TRUE, index |-> mid]
            ELSE IF cmp < 0 THEN node_find_loop(node, key, low, mid - 1)
            ELSE node_find_loop(node, key, mid + 1, high)

node_find(node, key) == node_find_loop(node, key, 0, nitems(node) - 1)

\* a lean-left split that takes max_items-1-min_items whatever the node holds
node_split_mid_unadjusted(maxi, mini, n, lean_left) ==
    IF lean_left THEN maxi - 1 - mini ELSE (maxi - 1) \div 2

\* the index of the item node_split promotes in a node of n items
node_split_mid(maxi, mini, n, lean_left) ==
    LET mid0 == maxi - 1 - mini
        mdif == (n - (mid0 + 1)) - mini
    IN IF lean_left
       THEN (IF mdif < 0 THEN mid0 + mdif ELSE mid0)
       ELSE (maxi - 1) \div 2

\* node_split: the items right of the median move to a new node; lean_left
\* keeps more items in the left node
node_split(heap, id, lean_left, maxi, mini) ==
    LET node == heap[id]
        n == nitems(node)
        mid == node_split_mid(maxi, mini, n, lean_left)
        g == gimme_node(heap, node.leaf)
        right == [g.nodes[g.id] EXCEPT
                    !.items = SubSeq(node.items, mid + 2, n),
                    !.children = IF node.leaf THEN << >>
                                 ELSE SubSeq(node.children, mid + 2, n + 1)]
        left == [node EXCEPT
                    !.items = SubSeq(node.items, 1, mid),
                    !.children = IF node.leaf THEN << >>
                                 ELSE SubSeq(node.children, 1, mid + 1)]
    IN [nodes |-> [g.nodes EXCEPT ![id] = left, ![g.id] = right],
        right |-> g.id, median |-> node.items[mid + 1],
        cut |-> [n0 |-> n, left |-> nitems(left), right |-> nitems(right),
                 lean_left |-> lean_left]]

\* node_set: the item replaces an equal one or is inserted in a leaf; a
\* child that became full by the insertion is split afterwards
RECURSIVE node_set(_, _, _, _, _)
node_set(bt, heap, id, item, lean_left) ==
    LET node == heap[id]
        f == node_find(node, item)
        i == f.index
    IN IF f.found
       THEN [nodes |-> [heap EXCEPT ![id] = btree_set_item_at(node, i, item)],
             replaced |-> TRUE, spare |-> btree_get_item_at(node, i),
             cuts |-> << >>]
       ELSE IF node.leaf
       THEN [nodes |-> [heap EXCEPT ![id] =
                 btree_set_item_at(btree_node_shift_right(node, i), i, item)],
             replaced |-> FALSE, spare |-> NULL, cuts |-> << >>]
       ELSE With(node_set(bt, heap, node.children[i + 1], item, lean_left),
                 LAMBDA r :
            IF r.replaced THEN r
            ELSE IF nitems(r.nodes[node.children[i + 1]]) = bt.max_items - 1
            THEN With(node_split(r.nodes, node.children[i + 1], lean_left,
                                 bt.max_items, bt.min_items),
                      LAMBDA s :
                 [nodes |-> [s.nodes EXCEPT ![id] =
                      [btree_set_item_at(btree_node_shift_right(node, i),
                                         i, s.median)
                         EXCEPT !.children[i + 2] = s.right]],
                  replaced |-> FALSE, spare |-> NULL,
                  cuts |-> Append(r.cuts, s.cut)])
            ELSE r)

\* btree_set_x: forgets the cached leaf, then sets the item and splits a
\* root that became full
btree_set_x(heap, t0, item, lean_left) ==
    LET t == [t0 EXCEPT !.litem = NULL, !.lnode = NULL, !.oom = FALSE]
    IN IF t.root = NULL
       THEN With(gimme_node(heap, TRUE), LAMBDA g :
            [nodes |-> [g.nodes EXCEPT ![g.id].items = <<item>>],
             t |-> [t EXCEPT !.root = g.id, !.count = @ + 1,
                             !.height = @ + 1],
             ret |-> NULL, cuts |-> << >>])
       ELSE With(node_set(t, heap, t.root, item, lean_left), LAMBDA r :
            IF r.replaced
            THEN [nodes |-> r.nodes, t |-> t, ret |-> r.spare,
                  cuts |-> << >>]
            ELSE IF nitems(r.nodes[t.root]) = t.max_items - 1
            THEN With(node_split(r.nodes, t.root, lean_left,
                                 t.max_items, t.min_items), LAMBDA s :
                 With(gimme_node(s.nodes, FALSE), LAMBDA g :
                 [nodes |-> [g.nodes EXCEPT
                               ![g.id].items = <<s.median>>,
                               ![g.id].children = <<t.root, s.right>>],
                  t |-> [t EXCEPT !.root = g.id, !.count = @ + 1,
                                  !.height = @ + 1],
                  ret |-> NULL, cuts |-> Append(r.cuts, s.cut)]))
            ELSE [nodes |-> r.nodes, t |-> [t EXCEPT !.count = @ + 1],
                  ret |-> NULL, cuts |-> r.cuts])

\* the loop at the end of btree_load: the rightmost leaf
RECURSIVE last_leaf(_, _)
last_leaf(heap, id) ==
    IF heap[id].leaf THEN id
    ELSE last_leaf(heap, heap[id].children[nitems(heap[id]) + 1])

\* a load that goes through btree_set_x as btree_set does
btree_load_as_set(heap, t, item) ==
    With(btree_set_x(heap, t, item, FALSE), LAMBDA o :
         IF o.ret # NULL THEN o
         ELSE LET leaf == last_leaf(o.nodes, o.t.root)
              IN [o EXCEPT !.t.lnode = leaf,
                           !.t.litem = nitems(o.nodes[leaf])])

\* btree_load of that version: an item greater than the item in the cached
\* slot is appended to the cached leaf while it has room; any other item
\* goes through btree_set_x, after which the last slot of the rightmost
\* leaf is cached
btree_load_cached(heap, t, item) ==
    IF /\ t.litem # NULL
       /\ t.lnode # NULL
       /\ nitems(heap[t.lnode]) < t.max_items - 2
       /\ btree_compare(item, heap[t.lnode].items[t.litem]) > 0
    THEN [nodes |-> [heap EXCEPT ![t.lnode].items = Append(@, item)],
          t |-> [t EXCEPT !.count = @ + 1, !.oom = FALSE],
          ret |-> NULL, cuts |-> << >>]
    ELSE With(btree_set_x(heap, t, item, TRUE), LAMBDA o :
         IF o.ret # NULL THEN o
         ELSE LET leaf == last_leaf(o.nodes, o.t.root)
              IN [o EXCEPT !.t.lnode = leaf,
                           !.t.litem = nitems(o.nodes[leaf])])

\* the item is loaded into tree 1 and set in tree 2
LoadSet(st, item) ==
    With(btree_load_cached(st.nodes, st.tree[1], item), LAMBDA a :
    With(btree_set_x(a.nodes, st.tree[2], item, FALSE), LAMBDA b :
      [nodes |-> b.nodes,
       tree  |-> [st.tree EXCEPT ![1] = a.t, ![2] = b.t],
       ghost |-> st.ghost,
       clones |-> st.clones,
       last  |-> [op |-> "load", h |-> 1, k |-> item, ret |-> a.ret,
                  ret2 |-> b.ret, cuts |-> a.cuts, cuts2 |-> b.cuts,
                  walk0 |-> btree_walk(st.nodes, st.tree[1])]]))

RECURSIVE LoadSetAll(_, _)
LoadSetAll(st, items) ==
    IF items = << >> THEN st
    ELSE LoadSetAll(LoadSet(st, Head(items)), Tail(items))

\* two empty trees of that version, made with a max_items argument
NewLoadStateOf(arg) ==
    [nodes |-> [i \in NodeIds |-> FreeCell],
     tree  |-> [h \in Handles |-> NewLoadTree(arg)],
     ghost |-> {},
     clones |-> NoClones,
     last  |-> [op |-> "new", h |-> 1, k |-> NULL, ret |-> NULL,
                ret2 |-> NULL, cuts |-> << >>, cuts2 |-> << >>,
                walk0 |-> << >>]]

NewLoadState == NewLoadStateOf(DEF_MAX_ITEMS)

\* the numbers of items put in ascending order before the run
LoadedBefore == {0, 2, 4}

InitOldLoad ==
    /\ \E n \in LoadedBefore :
         \E st \in {LoadSetAll(NewLoadState,
                               [i \in 1..n |-> pair(2 * i, 0)])} :
            /\ nodes = st.nodes
            /\ tree = st.tree
            /\ ghost = st.ghost
            /\ last = st.last
            /\ clones = st.clones
    /\ thr = [t \in Handles |-> IdleThread(<< >>)]
    /\ ops = 0

\* an item of any key, stored or not, in any order
LoadAnyOrder ==
    \E k \in Keys, v \in 0..MaxVal :
        /\ ops < MaxLoads
        /\ \E st \in {LoadSet(State, pair(k, v))} : Becomes(st)
        /\ ops' = ops + 1
        /\ UNCHANGED thr

NextOldLoad == LoadAnyOrder

SpecOldLoad == InitOldLoad /\ [][NextOldLoad]_vars

\* a max_items argument with which node_split divides a full node
\* differently with and without lean_left
LoadSplitArg == 12

\* the trees of src/btree.c hold the fields of the cached leaf
IsOld == "lnode" \in DOMAIN tree[1]

\* trees of src/btree.h (the states of Init), and pairs of trees of
\* src/btree.c one item short of their first split, one loaded and one set
InitLoadSplit ==
    \/ Init
    \/ /\ \E st \in {LoadSetAll(NewLoadStateOf(LoadSplitArg),
                 [i \in 1..(old_max_items(LoadSplitArg) - 2) |->
                     pair(2 * i, 0)])} :
             /\ nodes = st.nodes
             /\ tree = st.tree
             /\ ghost = st.ghost
             /\ last = st.last
             /\ clones = st.clones
       /\ thr = [t \in Handles |-> IdleThread(<< >>)]
       /\ ops = 0

NextLoadSplit ==
    \/ ~IsOld /\ Next
    \/ IsOld /\ LoadAnyOrder

SpecLoadSplit == InitLoadSplit /\ [][NextLoadSplit]_vars

(* ------- the earlier action iteration (btree_action_ascend/descend) ---- *)
\* the keys of the pairs of the action tests are 1..MaxPairs
MaxPairs == 18

\* a pointer to an item: into the caller's memory (slot NULL, with the item
\* it points at) or to one of the three spares of the tree (slot 1..3 for
\* spares[0..2])
UserPtr(item) == [slot |-> NULL, val |-> item]

SparePtr(n) == [slot |-> n + 1, val |-> NULL]

NullPtr == UserPtr(NULL)

\* the item a pointer points at, given what the spares hold now
Deref(spares, p) == IF p.slot = NULL THEN p.val ELSE spares[p.slot]

\* reset_load_fields: the cached leaf is forgotten
reset_load_fields(t) == [t EXCEPT !.litem = NULL, !.lnode = NULL]

\* takeaway: the node goes back to the pool
takeaway(heap, id) == [heap EXCEPT ![id] = FreeCell]

\* the end of node_delete: a child left with fewer than min_items items is
\* merged with a sibling, or takes an item from the larger side through
\* the separator
node_delete_rebalance(heap, id, i0) ==
    LET node == heap[id]
    IN IF nitems(heap[node.children[i0 + 1]]) >= bt_min_items THEN heap
       ELSE LET i == IF i0 = nitems(node) THEN i0 - 1 ELSE i0
                l == node.children[i + 1]
                r == node.children[i + 2]
                left == heap[l]
                right == heap[r]
                sep == btree_get_item_at(node, i)
            IN IF nitems(left) + nitems(right) + 1 < bt_max_items - 1
               THEN takeaway(
                      [heap EXCEPT
                         ![l] = btree_node_join(
                                  [left EXCEPT !.items = Append(@, sep)],
                                  right),
                         ![id] = btree_node_shift_left(node, i, TRUE)], r)
               ELSE IF nitems(left) > nitems(right)
               THEN [heap EXCEPT
                       ![r] = [btree_set_item_at(
                                 btree_node_shift_right(right, 0), 0, sep)
                                 EXCEPT !.children =
                                   IF left.leaf THEN << >>
                                   ELSE <<left.children[nitems(left) + 1]>>
                                        \o right.children],
                       ![id] = btree_set_item_at(node, i,
                                 btree_get_item_at(left, nitems(left) - 1)),
                       ![l] = [left EXCEPT
                                 !.items = SubSeq(@, 1, nitems(left) - 1),
                                 !.children =
                                   IF left.leaf THEN << >>
                                   ELSE SubSeq(@, 1, nitems(left))]]
               ELSE [heap EXCEPT
                       ![l] = [left EXCEPT
                                 !.items = Append(@, sep),
                                 !.children =
                                   IF left.leaf THEN << >>
                                   ELSE Append(@, right.children[1])],
                       ![id] = btree_set_item_at(node, i,
                                 btree_get_item_at(right, 0)),
                       ![r] = btree_node_shift_left(right, 0, FALSE)]

\* node_delete of that version: the item found in a leaf is copied to prev
\* and removed; the item found in a branch is copied to prev and replaced by
\* the greatest item of the child left of it, which goes through spares[2];
\* the child the deletion went through is rebalanced. key and prev are
\* pointers, and key is read at every level
RECURSIVE node_delete(_, _, _, _, _, _)
node_delete(heap, id, act, key, spares, prev) ==
    LET node == heap[id]
        f == CASE act = "POPMAX" ->
                    [found |-> TRUE, index |-> nitems(node) - 1]
               [] act = "POPFRONT" -> [found |-> node.leaf, index |-> 0]
               [] act = "POPBACK" ->
                    IF ~node.leaf
                    THEN [found |-> FALSE, index |-> nitems(node)]
                    ELSE [found |-> TRUE, index |-> nitems(node) - 1]
               [] OTHER -> node_find(node, Deref(spares, key))
        i == f.index
    IN IF node.leaf
       THEN IF f.found
            THEN [nodes |-> [heap EXCEPT
                               ![id] = btree_node_shift_left(node, i, FALSE)],
                  deleted |-> TRUE,
                  spares |-> [spares EXCEPT
                                ![prev.slot] = btree_get_item_at(node, i)]]
            ELSE [nodes |-> heap, deleted |-> FALSE, spares |-> spares]
       ELSE IF f.found /\ act = "POPMAX"
       THEN With(node_delete(heap, node.children[i + 2], "POPMAX", NullPtr,
                             spares, prev),
                 LAMBDA r :
            [nodes |-> node_delete_rebalance(r.nodes, id, i + 1),
             deleted |-> TRUE, spares |-> r.spares])
       ELSE IF f.found
       THEN With(node_delete(heap, node.children[i + 1], "POPMAX", NullPtr,
                             [spares EXCEPT
                                ![prev.slot] = btree_get_item_at(node, i)],
                             SparePtr(2)),
                 LAMBDA r :
            [nodes |-> node_delete_rebalance(
                         [r.nodes EXCEPT
                            ![id] = btree_set_item_at(
                                      node, i, Deref(r.spares, SparePtr(2)))],
                         id, i),
             deleted |-> TRUE, spares |-> r.spares])
       ELSE With(node_delete(heap, node.children[i + 1], act, key, spares,
                             prev),
                 LAMBDA r :
            IF ~r.deleted THEN r
            ELSE [r EXCEPT !.nodes = node_delete_rebalance(r.nodes, id, i)])

\* delete_x: the deleted item is left in spares[0]; a root left without
\* items gives way to its only child
delete_x(heap, t0, act, key, spares) ==
    LET t == reset_load_fields(t0)
    IN IF t.root = NULL
       THEN [nodes |-> heap, t |-> t, ret |-> NullPtr, spares |-> spares]
       ELSE With(node_delete(heap, t.root, act, key, spares, SparePtr(0)),
                 LAMBDA d :
            IF ~d.deleted
            THEN [nodes |-> d.nodes, t |-> t, ret |-> NullPtr,
                  spares |-> d.spares]
            ELSE IF nitems(d.nodes[t.root]) = 0
            THEN [nodes |-> takeaway(d.nodes, t.root),
                  t |-> [t EXCEPT
                           !.root = IF d.nodes[t.root].leaf THEN NULL
                                    ELSE d.nodes[t.root].children[1],
                           !.height = @ - 1, !.count = @ - 1],
                  ret |-> SparePtr(0), spares |-> d.spares]
            ELSE [nodes |-> d.nodes, t |-> [t EXCEPT !.count = @ - 1],
                  ret |-> SparePtr(0), spares |-> d.spares])

\* btree_delete of that version
btree_delete_hint(heap, t, key, spares) ==
    delete_x(heap, t, "DELKEY", key, spares)

\* the callbacks of the action tests; seen are the items of the calls made
\* before this one, which the callback keeps in udata (pair_cycle their
\* number only); the answer is the action and the item as the callback
\* leaves it. pair_rekey answers BTREE_UPDATE with another key the first
\* time it is given an item, and BTREE_NONE from then on
ActionCallbacks ==
    {"pair_keep", "pair_update", "pair_delete", "pair_cycle", "pair_rekey"}

pair_update(item) == pair(pair_key(item), pair_val(item) + 1)

pair_rekey(item) == pair(pair_key(item) + MaxPairs + 2, pair_val(item))

Answer(cb, item, seen) ==
    LET n == Len(seen) IN
    CASE cb = "pair_keep" -> [act |-> "BTREE_NONE", item |-> item]
      [] cb = "pair_rekey" ->
            IF \E j \in 1..n : seen[j] = item
            THEN [act |-> "BTREE_NONE", item |-> item]
            ELSE [act |-> "BTREE_UPDATE", item |-> pair_rekey(item)]
      [] cb = "pair_update" ->
            [act |-> "BTREE_UPDATE", item |-> pair_update(item)]
      [] cb = "pair_delete" -> [act |-> "BTREE_DELETE", item |-> item]
      [] OTHER ->
            CASE n % 3 = 0 -> [act |-> "BTREE_NONE", item |-> item]
              [] n % 3 = 1 ->
                    [act |-> "BTREE_UPDATE", item |-> pair_update(item)]
              [] OTHER -> [act |-> "BTREE_DELETE", item |-> item]

\* the condition of the in-place delete (mutation: a leaf at min_items too)
action_delete_in_place_at_min(node) ==
    node.leaf /\ nitems(node) >= bt_min_items

\* BTREE_DELETE: a leaf with more than min_items items loses the item in
\* place
action_delete_in_place(node) == node.leaf /\ nitems(node) > bt_min_items

\* the slow route (mutation: the restart without the delete)
action_slow_route_keeps(s, id, i) ==
    [s EXCEPT !.spares[SparePtr(1).slot] =
                 btree_get_item_at(s.nodes[id], i),
              !.pivot = SparePtr(1), !.ret = "BTSTARTOVER"]

\* BTREE_DELETE where rebalancing is required: the item is copied into
\* spares[1], deleted with btree_delete, and becomes the pivot of the
\* restart
action_slow_route(s, id, i) ==
    With([s.spares EXCEPT ![SparePtr(1).slot] =
             btree_get_item_at(s.nodes[id], i)], LAMBDA spares :
    With(btree_delete_hint(s.nodes, s.t, SparePtr(1), spares), LAMBDA d :
      [s EXCEPT !.nodes = d.nodes, !.t = d.t, !.spares = d.spares,
                !.pivot = SparePtr(1), !.ret = "BTSTARTOVER"]))

\* the switch of node_action_ascend and node_action_descend on the answer
\* of the callback, which is given item i of the node in spares[0]; next is
\* the index the loop goes on with (back: the step of an index that has to
\* be tried again, which the loop's own step undoes)
action_switch(s, id, i, cb, back) ==
    LET node == s.nodes[id]
        item == btree_get_item_at(node, i)
        a == Answer(cb, item, s.seen)
        v == [s EXCEPT !.seen = Append(@, item), !.next = i,
                       !.spares[SparePtr(0).slot] = a.item,
                       !.ret = "BTCONTINUE"]
    IN CASE a.act = "BTREE_NONE" -> v
         [] a.act = "BTREE_DELETE" ->
              IF action_delete_in_place(node)
              THEN [v EXCEPT
                      !.nodes[id] = btree_node_shift_left(node, i, FALSE),
                      !.t.count = @ - 1,
                      !.next = IF back < 0 THEN i - 1 ELSE i]
              ELSE action_slow_route(v, id, i)
         [] a.act = "BTREE_UPDATE" ->
              IF btree_compare(item, Deref(v.spares, SparePtr(0))) # 0
              THEN [v EXCEPT !.next = i + back]
              ELSE [v EXCEPT
                      !.nodes[id] = btree_set_item_at(
                                      node, i, Deref(v.spares, SparePtr(0)))]
         [] OTHER -> [v EXCEPT !.ret = "BTSTOP"]

\* node_action_ascend: the items from the pivot on in ascending order, each
\* child before the item right of it
RECURSIVE node_action_ascend(_, _, _)
RECURSIVE action_ascend_loop(_, _, _, _)
node_action_ascend(s, id, cb) ==
    action_ascend_loop(s, id,
        IF s.pivot # NullPtr
        THEN node_find(s.nodes[id], Deref(s.spares, s.pivot)).index
        ELSE 0,
        cb)

action_ascend_loop(s, id, i, cb) ==
    With(IF s.nodes[id].leaf THEN [s EXCEPT !.ret = "BTCONTINUE"]
         ELSE node_action_ascend(s, s.nodes[id].children[i + 1], cb),
         LAMBDA c :
      IF c.ret # "BTCONTINUE" \/ i >= nitems(c.nodes[id]) THEN c
      ELSE With(action_switch(c, id, i, cb, -1), LAMBDA v :
           IF v.ret # "BTCONTINUE" THEN v
           ELSE action_ascend_loop(v, id, v.next + 1, cb)))

\* node_action_descend: the items from the pivot on in descending order,
\* each child after the item right of it
RECURSIVE node_action_descend(_, _, _)
RECURSIVE action_descend_loop(_, _, _, _)
node_action_descend(s, id, cb) ==
    LET node == s.nodes[id]
        f == IF s.pivot # NullPtr
             THEN node_find(node, Deref(s.spares, s.pivot))
             ELSE [found |-> FALSE, index |-> nitems(node)]
    IN With(IF ~node.leaf /\ ~f.found
            THEN node_action_descend(s, node.children[f.index + 1], cb)
            ELSE [s EXCEPT !.ret = "BTCONTINUE"],
            LAMBDA c :
         IF c.ret # "BTCONTINUE" THEN c
         ELSE action_descend_loop(c, id,
                  IF f.found THEN f.index ELSE f.index - 1, cb))

action_descend_loop(s, id, i, cb) ==
    IF i < 0 THEN [s EXCEPT !.ret = "BTCONTINUE"]
    ELSE With(action_switch(s, id, i, cb, 1), LAMBDA v :
         IF v.ret # "BTCONTINUE" THEN v
         ELSE IF v.nodes[id].leaf
         THEN action_descend_loop(v, id, v.next - 1, cb)
         ELSE With(node_action_descend(
                       v, v.nodes[id].children[v.next + 1], cb),
                   LAMBDA c :
              IF c.ret # "BTCONTINUE" THEN c
              ELSE action_descend_loop(c, id, v.next - 1, cb)))

\* what an action iteration has done so far: the pivot (the caller's, or
\* after a restart spares[1]), the spares, the items handed to the
\* callback, and the answer of the last call of node_action_ascend or
\* node_action_descend on the root; of the last turn of the loop, the
\* pivot pointer it began with (pivotp), the item that pointer pointed at
\* (pivot0), the items of the tree then (walkp) and the number of calls of
\* the callback made before it (from)
NoAction == [op |-> "new", h |-> 1, k |-> NULL, iter |-> "none",
             pivot |-> NullPtr, spares |-> <<NULL, NULL, NULL>>,
             running |-> FALSE, ret |-> "BTCONTINUE",
             restarts |-> 0, seen |-> << >>, walk0 |-> << >>,
             count0 |-> 0, height0 |-> 0,
             pivotp |-> NullPtr, pivot0 |-> NULL, walkp |-> << >>,
             from |-> 0]

\* btree_set of the items one after the other
RECURSIVE SetAllPairs(_, _)
SetAllPairs(st, items) ==
    IF items = << >> THEN st
    ELSE With(btree_set_x(st.nodes, st.tree[1], Head(items), FALSE),
              LAMBDA o :
         SetAllPairs([st EXCEPT !.nodes = o.nodes, !.tree[1] = o.t],
                     Tail(items)))

\* the orders the pairs are set in: ascending, descending, the odd keys
\* before the even ones, and every second key only
PairOrders(n) ==
    { [i \in 1..n |-> pair(i, 0)],
      [i \in 1..n |-> pair(n + 1 - i, 0)],
      [i \in 1..n |-> pair(IF 2 * i - 1 <= n THEN 2 * i - 1
                           ELSE 2 * (i - (n + 1) \div 2), 0)],
      [i \in 1..(n \div 2) |-> pair(2 * i, 0)] }

\* the numbers of pairs set before the iteration
PairCounts == {0, 1, 3, 6, 9, 13, MaxPairs}

InitAction ==
    /\ \E n \in PairCounts :
         \E items \in PairOrders(n) :
            \E st \in {SetAllPairs(NewLoadState, items)} :
               /\ nodes = st.nodes
               /\ tree = st.tree
               /\ ghost = st.ghost
               /\ clones = st.clones
    /\ last = NoAction
    /\ thr = [t \in Handles |-> IdleThread(<< >>)]
    /\ ops = 0

\* the pivots given to the iteration: none, or a pair of any key up to one
\* above the greatest
ActionPivots == {NULL} \cup {pair(k, 0) : k \in 1..(MaxPairs + 1)}

\* the entry of btree_action_ascend_hint and btree_action_descend_hint
ActionBegin(op, pivot, cb) ==
    /\ tree' = [tree EXCEPT ![1] = reset_load_fields(@)]
    /\ last' = [NoAction EXCEPT
                  !.op = op, !.k = pivot, !.iter = cb,
                  !.pivot = UserPtr(pivot),
                  !.running = TRUE,
                  !.walk0 = btree_walk(nodes, tree[1]),
                  !.count0 = tree[1].count,
                  !.height0 = tree[1].height]
    /\ UNCHANGED <<nodes, ghost, clones, thr, ops>>

BtreeActionAscend ==
    /\ last.op = "new"
    /\ \E pivot \in ActionPivots, cb \in ActionCallbacks :
          ActionBegin("action_ascend", pivot, cb)

BtreeActionDescend ==
    /\ last.op = "new"
    /\ \E pivot \in ActionPivots, cb \in ActionCallbacks :
          ActionBegin("action_descend", pivot, cb)

\* one turn of the loop of btree_action_ascend_hint and
\* btree_action_descend_hint: it ends when there is no root or when the
\* call on the root does not answer BTSTARTOVER
ActionPass ==
    /\ last.running
    /\ IF tree[1].root = NULL
       THEN /\ last' = [last EXCEPT !.running = FALSE]
            /\ UNCHANGED <<nodes, tree>>
       ELSE \E r \in {With([nodes |-> nodes, t |-> tree[1],
                            pivot |-> last.pivot, spares |-> last.spares,
                            seen |-> last.seen,
                            next |-> 0, ret |-> "BTCONTINUE"],
                           LAMBDA s :
                           IF last.op = "action_ascend"
                           THEN node_action_ascend(s, s.t.root, last.iter)
                           ELSE node_action_descend(s, s.t.root,
                                                    last.iter))} :
              /\ nodes' = r.nodes
              /\ tree' = [tree EXCEPT ![1] = r.t]
              /\ last' = [last EXCEPT
                            !.pivot = r.pivot, !.spares = r.spares,
                            !.seen = r.seen,
                            !.pivotp = last.pivot,
                            !.pivot0 = Deref(last.spares, last.pivot),
                            !.walkp = btree_walk(nodes, tree[1]),
                            !.from = Len(last.seen),
                            !.ret = r.ret,
                            !.running = (r.ret = "BTSTARTOVER"),
                            !.restarts = IF r.ret = "BTSTARTOVER"
                                         THEN @ + 1 ELSE @]
    /\ UNCHANGED <<ghost, clones, thr, ops>>

NextAction ==
    \/ BtreeActionAscend
    \/ BtreeActionDescend
    \/ ActionPass

SpecAction == InitAction /\ [][NextAction]_vars

\* the caller does not stop inside the loop. This is WF_vars(ActionPass)
\* with ENABLED <<ActionPass>>_vars written out: a turn can be taken
\* exactly while the caller is in the loop, and every turn changes last
ActionFairness == []<>(~last.running) \/ []<><<ActionPass>>_vars

SpecActionFair == SpecAction /\ ActionFairness

(* ----------- trees with item callbacks, freed at the end --------------- *)
\* test_clone_items_withcallbacks: btree_set_item_callbacks on the new tree
\* before the items are put in it
WithCallbacks(calls) == <<Call("callbacks", 1, NULL, 0)>> \o calls

\* a tree of one full leaf and a tree of height 3, alone and cloned
HookPrefixes ==
    { WithCallbacks(SetAscending(max_items)),
      WithCallbacks(SetAscending(max_items) \o <<Call("clone", 1, NULL, 0)>>),
      WithCallbacks(SetAscending(MaxKey - 1)),
      WithCallbacks(SetAscending(MaxKey - 1)
                    \o <<Call("clone", 1, NULL, 0)>>) }

InitFree == InitFrom(HookPrefixes)

\* btree_free at the end of a test: every handle that is left is freed
BtreeFreeLast ==
    \E h \in Handles :
        /\ tree[h].live
        /\ ops = MaxOps
        /\ \E st \in {Do(State, Call("free", h, NULL, 0))} : Becomes(st)
        /\ UNCHANGED <<ops, thr>>

NextFree ==
    \/ BtreeSet
    \/ BtreeDelete
    \/ BtreePopMin
    \/ BtreePopMax
    \/ BtreeLoad
    \/ BtreeClear
    \/ BtreeFree
    \/ BtreeClone
    \/ BtreeFreeLast

SpecFree == InitFree /\ [][NextFree]_vars

(* ------------------- trees drained by pops ----------------------------- *)
\* the loops of the tests that pop until the tree is empty, a pop that
\* failed being called again
Drain(c) ==
    /\ \E st \in {Do(State, c)} :
          /\ c.f <= st.last.allocs
          /\ Becomes(st)
    /\ UNCHANGED <<ops, thr>>

DrainMin ==
    \E h \in Handles, f \in 0..MaxFail :
        /\ tree[h].live
        /\ Drain(Call("pop_min", h, NULL, f))

DrainMax ==
    \E h \in Handles, f \in 0..MaxFail :
        /\ tree[h].live
        /\ Drain(Call("pop_max", h, NULL, f))

NextDrain ==
    \/ DrainMin
    \/ DrainMax

\* a tree of three levels of its own, and a smaller tree with its clone
DrainPrefixes ==
    { SetAscending(10),
      SetEven(MaxKey \div 2) \o <<Call("clone", 1, NULL, 0)>> }

InitDrain == InitFrom(DrainPrefixes)

SpecDrain == InitDrain /\ [][NextDrain]_vars

(* ----------------------- rebalancing ----------------------------------- *)
SetDescending(n) == [i \in 1..n |-> Call("set", 1, pair(n + 1 - i, 0), 0)]

\* trees whose last child is underfull after one removal while its left
\* sibling is full, as a leaf and as a branch, and a tree whose first branch
\* is underfull after one removal while its right sibling is full
RebalancePrefixes ==
    { SetDescending(MaxKey \div 2),
      SetDescending(MaxKey + 2),
      SetAscending(MaxKey + 2) }

InitRebalance == InitFrom(RebalancePrefixes)

SpecRebalance == InitRebalance /\ [][Next]_vars

(* ----------------------- splits ---------------------------------------- *)
MaxSplitArg == 16     \* max_items arguments of the trees whose node is split

\* the node to split: of which version, built with which max_items
\* argument (0 and 1 stand for nodes of 255 items), a leaf or a branch, and
\* (node_split only) lean_left
SplitArgs ==
    [version : {"btree.c"}, arg : 2..MaxSplitArg, leaf : BOOLEAN,
     lean_left : BOOLEAN]
    \cup [version : {"btree.h"}, arg : 2..MaxSplitArg, leaf : BOOLEAN,
          lean_left : {FALSE}]

\* the number of items of a node when it is split: node_set splits a child
\* that holds max_items-1 items, btree_node_set one that holds max_items
SplitLen(a) ==
    IF a.version = "btree.c" THEN old_max_items(a.arg) - 1
    ELSE new_max_items(a.arg)

\* cell 1 is the node to split, with ascending items; the cells after it
\* are its children when it is a branch
SplitHeap(a) ==
    [i \in NodeIds |->
       IF i = 1
       THEN [FreeCell EXCEPT
               !.used = TRUE, !.leaf = a.leaf,
               !.items = [j \in 1..SplitLen(a) |-> pair(j, 0)],
               !.children = IF a.leaf THEN << >>
                            ELSE [j \in 1..(SplitLen(a) + 1) |-> j + 1]]
       ELSE IF ~a.leaf /\ i <= SplitLen(a) + 2
       THEN [FreeCell EXCEPT !.used = TRUE]
       ELSE FreeCell]

InitSplit ==
    /\ \E a \in SplitArgs :
          /\ nodes = SplitHeap(a)
          /\ last = [NewState.last EXCEPT !.op = "args", !.k = a]
    /\ tree = [h \in Handles |-> NoTree]
    /\ ghost = {}
    /\ clones = NoClones
    /\ thr = [t \in Handles |-> IdleThread(<< >>)]
    /\ ops = 0

\* node_split of src/btree.c on the node of cell 1
NodeSplit ==
    /\ last.op = "args" /\ last.k.version = "btree.c"
    /\ \E s \in {node_split(nodes, 1, last.k.lean_left,
                             old_max_items(last.k.arg),
                             old_min_items(last.k.arg))} :
          /\ nodes' = s.nodes
          /\ last' = [last EXCEPT
                        !.op = "split",
                        !.ret = [node0 |-> nodes[1], right |-> s.right,
                                 median |-> s.median]]
    /\ UNCHANGED <<tree, ghost, clones, thr, ops>>

\* btree_node_split of src/btree.h on the node of cell 1
BtreeNodeSplit ==
    /\ last.op = "args" /\ last.k.version = "btree.h"
    /\ \E m \in {btree_node_split_x(Machine(nodes, 0), 1,
                                     new_max_items(last.k.arg))} :
          /\ nodes' = m.nodes
          /\ last' = [last EXCEPT
                        !.op = "split",
                        !.ret = [node0 |-> nodes[1], right |-> m.right,
                                 median |-> m.median]]
    /\ UNCHANGED <<tree, ghost, clones, thr, ops>>

NextSplit ==
    \/ NodeSplit
    \/ BtreeNodeSplit

SpecSplit == InitSplit /\ [][NextSplit]_vars

(* ----------------------- construction ---------------------------------- *)
MaxFanOutArg == 4100     \* max_items arguments are 0..MaxFanOutArg

\* the max_items arguments: every small one and one large size_t
FanOutArgs == (0..MaxFanOutArg) \cup {2147483647}

\* a tree that prefers the process-global allocator to its own
new_allocator_global_first(malloc_, global) ==
    IF global # NoFn THEN global
    ELSE IF malloc_ # NoFn THEN malloc_ ELSE "malloc"

\* malloc_ = malloc_ ? malloc_ : _btree_malloc ? _btree_malloc : malloc;
\* free_ is chosen the same way: an allocator stands for its malloc and free
new_allocator(malloc_, global) ==
    IF malloc_ # NoFn THEN malloc_
    ELSE IF global # NoFn THEN global ELSE "malloc"

\* the arguments of btree_new_with_allocator, and the allocator given to
\* btree_set_allocator before it (NoFn when it was not called)
NewArgs ==
    [malloc_ : {NoFn, "malloc_"}, global : {NoFn, "_btree_malloc"},
     elsize : {0, 8}, max_items : FanOutArgs, compare : {NoFn, "compare"}]

\* btree_new_with_allocator; failAt = 1: the allocation of the struct fails
btree_new_with_allocator(a, failAt) ==
    LET al == new_allocator(a.malloc_, a.global)
    IN IF failAt = 1 THEN NoTree
       ELSE [EmptyTree EXCEPT
               !.max_items = new_max_items(a.max_items),
               !.min_items = new_min_items(a.max_items),
               !.compare = a.compare, !.elsize = a.elsize,
               !.malloc = al, !.by = al]

\* no tree yet: the arguments of the construction to come are in last.k
InitNew ==
    /\ nodes = NewState.nodes
    /\ tree = [h \in Handles |-> NoTree]
    /\ ghost = {}
    /\ clones = NoClones
    /\ thr = [t \in Handles |-> IdleThread(<< >>)]
    /\ ops = 0
    /\ \E a \in NewArgs : last = [NewState.last EXCEPT !.op = "args", !.k = a]

\* the construction; ghost remembers that both allocators were given
BtreeNewWithAllocator ==
    \E f \in 0..1 :
        /\ last.op = "args"
        /\ tree' = [tree EXCEPT ![1] = btree_new_with_allocator(last.k, f)]
        /\ last' = [last EXCEPT !.op = "new", !.allocs = 1,
                                !.failed = (f = 1)]
        /\ ghost' = IF last.k.malloc_ # NoFn /\ last.k.global # NoFn
                    THEN {"both_allocators"} ELSE {}
        /\ UNCHANGED <<nodes, ops, clones, thr>>

\* the operations of the model work on trees of its fan-out that have a
\* comparator and an element size
Usable ==
    /\ last.op # "args"
    /\ \A h \in LiveHandles :
          /\ tree[h].max_items = max_items
          /\ tree[h].compare # NoFn /\ tree[h].elsize > 0

NextNew ==
    \/ BtreeNewWithAllocator
    \/ Usable /\ Next

SpecNew == InitNew /\ [][NextNew]_vars

(* --------------------------- hints ------------------------------------- *)
MaxDepth == 9      \* the greatest depth a node is searched at

\* the depths searched: the first and the last a hint has a byte for, and
\* depths beyond
HintDepths == {0, 7, 8, MaxDepth}

\* numbers of items of the nodes searched: the nodes of the model and nodes
\* around and beyond the 255 a hint byte can hold
NodeLens == {1, 2, 3, 255, 256, 257, 300}

\* the bytes of a hint that are tried at the depths of a descent
HintBytes == {0, 1, 2, 3, 255}

\* a node of n items with the keys 3, 5, ... 2n+1
HintNode(n) == [FreeCell EXCEPT !.used = TRUE,
                                !.items = [j \in 1..n |-> pair(2 * j + 1, 0)]]

\* (uint8_t)index
u8(i) == i % 256

\* the range left to bisect when the hinted item compares the wrong way
hint_range_swapped(n, index, cmp) ==
    IF cmp > 0 THEN [low |-> 0, high |-> index - 1]
    ELSE [low |-> index + 1, high |-> n - 1]

\* if (cmp > 0) low = index+1; else high = index-1;
hint_range(n, index, cmp) ==
    IF cmp > 0 THEN [low |-> index + 1, high |-> n - 1]
    ELSE [low |-> 0, high |-> index - 1]

\* btree_node_bsearch_hint: hint is the sequence of the 8 bytes of *hint;
\* the result carries the hint as the call leaves it
btree_node_bsearch_hint(node, key, hint, depth) ==
    LET n == nitems(node)
        use == depth < 8
        byte == IF use THEN hint[depth + 1] ELSE 0
        index == IF byte > n - 1 THEN n - 1 ELSE byte
        cmp == btree_compare(key, btree_get_item_at(node, index))
    IN IF use /\ byte > 0 /\ cmp = 0
       THEN [found |-> TRUE, i |-> index, hint |-> hint]
       ELSE LET rg == IF use /\ byte > 0 THEN hint_range(n, index, cmp)
                      ELSE [low |-> 0, high |-> n - 1]
                r == node_find_loop(node, key, rg.low, rg.high)
            IN [found |-> r.found, i |-> r.index,
                hint |-> IF use THEN [hint EXCEPT ![depth + 1] = u8(r.index)]
                         ELSE hint]

\* the loop of btree_get0 with a hint
RECURSIVE get0_hint_loop(_, _, _, _, _)
get0_hint_loop(heap, id, key, hint, depth) ==
    With(btree_node_bsearch_hint(heap[id], key, hint, depth), LAMBDA s :
      IF s.found THEN btree_get_item_at(heap[id], s.i)
      ELSE IF heap[id].leaf THEN NULL
      ELSE get0_hint_loop(heap, heap[id].children[s.i + 1], key, s.hint,
                          depth + 1))

btree_get_hint(heap, t, key, hint) ==
    IF t.root = NULL THEN NULL ELSE get0_hint_loop(heap, t.root, key, hint, 0)

\* the keys a node of n items is probed with: all of them for a small node,
\* else those around both ends, around the hinted item and around item 255
ProbeKeys(n, byte) ==
    {k \in 2..(2 * n + 2) :
        \/ n <= 3
        \/ \E c \in {2, 2 * n + 2, 2 * byte + 3, 2 * 255 + 3} :
              k - c \in -3..3}

\* a tree of three levels in which keys 1 and 5 are not stored
HintPrefixes ==
    { SetAscending(10) \o <<Call("delete", 1, pair(1, 0), 0),
                            Call("delete", 1, pair(5, 0), 0)>> }

InitHint == InitFrom(HintPrefixes)

\* one node searched with a hint whose byte at the depth is anything, next
\* to the search without a hint; each case is taken from the tree as built
HintSearch ==
    /\ last.op \notin {"search", "get_hint"}
    /\ \E n \in NodeLens, depth \in HintDepths, byte \in 0..255 :
      \E key \in ProbeKeys(n, byte) :
        /\ last' = [op |-> "search", n |-> n, depth |-> depth, byte |-> byte,
                    k |-> pair(key, 0),
                    res |-> btree_node_bsearch_hint(
                              HintNode(n), pair(key, 0),
                              [d \in 1..8 |-> byte], depth),
                    plain |-> btree_node_bsearch(HintNode(n), pair(key, 0))]
        /\ UNCHANGED <<nodes, tree, ghost, ops, clones, thr>>

\* btree_get_hint on the tree with a hint of any bytes, next to btree_get
GetHint ==
    /\ last.op \notin {"search", "get_hint"}
    /\ \E h \in LiveHandles, k \in 1..(MaxKey + 1),
         b \in [1..3 -> HintBytes] :
        /\ last' = [op |-> "get_hint", h |-> h, k |-> pair(k, 0), hint |-> b,
                    ret |-> btree_get_hint(
                              nodes, tree[h], pair(k, 0),
                              [d \in 1..8 |-> IF d <= 3 THEN b[d] ELSE 0]),
                    plain |-> btree_get(nodes, tree[h], pair(k, 0))]
        /\ UNCHANGED <<nodes, tree, ghost, ops, clones, thr>>

NextHint ==
    \/ HintSearch
    \/ GetHint

SpecHint == InitHint /\ [][NextHint]_vars

(* -------------------------- iterator ----------------------------------- *)
MaxIterOps == 3    \* calls made on one iterator

\* struct btree_iter after btree_iter_new: memset 0.  stack holds the frames
\* (node, index) below nstack; ret is what the last call returned; ub: the
\* last call read stack[-1]
NewIter == [seeked |-> FALSE, atstart |-> FALSE, atend |-> FALSE,
            stack |-> << >>, item |-> NULL, ret |-> FALSE, ub |-> FALSE,
            crashed |-> FALSE]

\* the first lines of first, last and seek
iter_reset(it) == [it EXCEPT !.atend = FALSE, !.atstart = FALSE,
                             !.seeked = FALSE, !.stack = << >>]

\* btree_copy_item_into(iter->btree, stack->node, stack->index, iter->item)
\* for the top frame; return true
iter_copy_top(heap, it, stack) ==
    LET top == stack[Len(stack)]
    IN [it EXCEPT !.stack = stack, !.ret = TRUE,
                  !.item = btree_get_item_at(heap[top.node], top.index)]

\* push (node, 0) down the first children until a leaf
RECURSIVE push_first(_, _, _)
push_first(heap, stack, id) ==
    LET s == Append(stack, [node |-> id, index |-> 0])
    IN IF heap[id].leaf THEN s
       ELSE push_first(heap, s, heap[id].children[1])

\* push (node, nitems) down the last children; the leaf frame is
\* decremented
RECURSIVE push_last(_, _, _)
push_last(heap, stack, id) ==
    LET n == nitems(heap[id])
    IN IF heap[id].leaf
       THEN Append(stack, [node |-> id, index |-> n - 1])
       ELSE push_last(heap, Append(stack, [node |-> id, index |-> n]),
                      heap[id].children[n + 1])

btree_iter_first(heap, t, it) ==
    IF t.root = NULL THEN [iter_reset(it) EXCEPT !.ret = FALSE]
    ELSE iter_copy_top(heap, [iter_reset(it) EXCEPT !.seeked = TRUE],
                       push_first(heap, << >>, t.root))

btree_iter_last(heap, t, it) ==
    IF t.root = NULL THEN [iter_reset(it) EXCEPT !.ret = FALSE]
    ELSE iter_copy_top(heap, [iter_reset(it) EXCEPT !.seeked = TRUE],
                       push_last(heap, << >>, t.root))

\* the loop of btree_iter_next that drops the frames that are at their end
RECURSIVE next_pop(_, _, _)
next_pop(heap, it, stack) ==
    IF stack = << >>
    THEN [it EXCEPT !.stack = << >>, !.atend = TRUE, !.ret = FALSE]
    ELSE LET top == stack[Len(stack)]
         IN IF top.index < nitems(heap[top.node])
            THEN iter_copy_top(heap, it, stack)
            ELSE next_pop(heap, it, SubSeq(stack, 1, Len(stack) - 1))

\* btree_iter_next; with nstack = 0 on a seeked iterator the frame read is
\* iter->stack[-1]
btree_iter_next(heap, t, it) ==
    IF ~it.seeked THEN btree_iter_first(heap, t, it)
    ELSE IF it.stack = << >> THEN [it EXCEPT !.ub = TRUE]
    ELSE LET n == Len(it.stack)
             top == it.stack[n]
             stack1 == [it.stack EXCEPT ![n].index = @ + 1]
         IN IF heap[top.node].leaf
            THEN IF top.index + 1 = nitems(heap[top.node])
                 THEN next_pop(heap, it, SubSeq(stack1, 1, n - 1))
                 ELSE iter_copy_top(heap, it, stack1)
            ELSE iter_copy_top(heap, it,
                   push_first(heap, stack1,
                              heap[top.node].children[top.index + 2]))

\* the loop of btree_iter_prev that drops the frames that are at their start
RECURSIVE prev_pop(_, _, _)
prev_pop(heap, it, stack) ==
    IF stack = << >>
    THEN [it EXCEPT !.stack = << >>, !.atstart = TRUE, !.ret = FALSE]
    ELSE LET n == Len(stack)
             stack1 == [stack EXCEPT ![n].index = @ - 1]
         IN IF stack1[n].index > -1
            THEN iter_copy_top(heap, it, stack1)
            ELSE prev_pop(heap, it, SubSeq(stack1, 1, n - 1))

\* btree_iter_prev; with nstack = 0 on a seeked iterator the frame read is
\* iter->stack[-1]
btree_iter_prev(heap, t, it) ==
    IF ~it.seeked THEN [it EXCEPT !.ret = FALSE]
    ELSE IF it.stack = << >> THEN [it EXCEPT !.ub = TRUE]
    ELSE LET n == Len(it.stack)
             top == it.stack[n]
         IN IF heap[top.node].leaf
            THEN IF top.index - 1 = -1
                 THEN prev_pop(heap, it, SubSeq(it.stack, 1, n - 1))
                 ELSE iter_copy_top(heap, it,
                        [it.stack EXCEPT ![n].index = @ - 1])
            ELSE iter_copy_top(heap, it,
                   push_last(heap, it.stack,
                             heap[top.node].children[top.index + 1]))

\* the loop of btree_iter_seek
RECURSIVE seek_loop(_, _, _, _, _)
seek_loop(heap, t, it, id, key) ==
    With(btree_node_bsearch(heap[id], key), LAMBDA s :
      LET stack == Append(it.stack, [node |-> id, index |-> s.i])
      IN IF s.found THEN iter_copy_top(heap, it, stack)
         ELSE IF heap[id].leaf
         THEN btree_iter_next(heap, t,
                [it EXCEPT !.stack =
                   [stack EXCEPT ![Len(stack)].index = @ - 1]])
         ELSE seek_loop(heap, t, [it EXCEPT !.stack = stack],
                        heap[id].children[s.i + 1], key))

btree_iter_seek(heap, t, it, key) ==
    IF t.root = NULL THEN [iter_reset(it) EXCEPT !.ret = FALSE]
    ELSE seek_loop(heap, t, [iter_reset(it) EXCEPT !.seeked = TRUE],
                   t.root, key)

\* what a call that read stack[-1] can do: stop the program, or return
\* either value with any item in the buffer
Outcomes(it) ==
    IF ~it.ub THEN {it}
    ELSE {[it EXCEPT !.crashed = c, !.ret = r, !.item = x] :
            c \in BOOLEAN, r \in BOOLEAN,
            x \in {NULL} \cup {pair(k, 0) : k \in Keys}}

IterOps == {"seek", "next", "prev", "first", "last"}

\* the iterator of the tree of handle 1: btree_iter_new before its first call
CurIter == IF last.op \in IterOps THEN last.it ELSE NewIter

IterCall(op, key, it) ==
    /\ ops < MaxIterOps
    /\ ~CurIter.ub
    /\ \E o \in Outcomes(it) :
          last' = [op |-> op, h |-> 1, k |-> key, it |-> o,
                   prior |-> last.op]
    /\ ops' = ops + 1
    /\ UNCHANGED <<nodes, tree, ghost, clones, thr>>

IterSeek ==
    \E k \in 1..(MaxKey + 1) :
        /\ tree[1].live
        /\ IterCall("seek", pair(k, 0),
                    btree_iter_seek(nodes, tree[1], CurIter, pair(k, 0)))

IterNext ==
    /\ tree[1].live
    /\ IterCall("next", IF last.op \in IterOps THEN last.k ELSE NULL,
                btree_iter_next(nodes, tree[1], CurIter))

IterPrev ==
    /\ tree[1].live
    /\ IterCall("prev", IF last.op \in IterOps THEN last.k ELSE NULL,
                btree_iter_prev(nodes, tree[1], CurIter))

\* a tree of three levels without the keys 1 and 5, and a tree of two levels
\* with the even keys
SeekPrefixes == HintPrefixes \cup {SetEven(MaxKey \div 2)}

InitSeek == InitFrom(SeekPrefixes)

NextSeek ==
    \/ IterSeek
    \/ IterNext
    \/ IterPrev

SpecSeek == InitSeek /\ [][NextSeek]_vars

IterFirst ==
    /\ tree[1].live
    /\ IterCall("first", NULL, btree_iter_first(nodes, tree[1], CurIter))

IterLast ==
    /\ tree[1].live
    /\ IterCall("last", NULL, btree_iter_last(nodes, tree[1], CurIter))

\* every call of the iterator, in any order
NextIterPath ==
    \/ IterFirst
    \/ IterLast
    \/ IterSeek
    \/ IterNext
    \/ IterPrev

SpecIterPath == InitSeek /\ [][NextIterPath]_vars

(* ------------------ threads that own a tree each ----------------------- *)
\* test_clone_threads: every thread works on the handle it owns.  The steps
\* of a thread are the accesses other threads can observe: the load of an
\* rc, each fetch_add of btree_node_copy, each fetch_sub of btree_node_free
\* and each free.  Everything else reads and writes the thread's own struct
\* btree and nodes whose rc was seen to be 0, and is part of the step that
\* follows it.
MaxThreadOps == 1

ThreadOps == {"set", "delete", "pop_min", "pop_max", "free"}

\* the items the threads set and delete: one on the leftmost path, one in
\* the middle and one on the rightmost path of the tree
ThreadKeys == {1, MaxKey \div 2, MaxKey}

\* test_clone_threads: the tree is filled and cloned before the threads run
ThreadPrefixes ==
    { SetAscending(MaxKey - 1) \o <<Call("clone", 1, NULL, 0)>>,
      SetAscending(MaxKey) \o <<Call("clone", 1, NULL, 0)>> }

InitThreads == InitFrom(ThreadPrefixes)

\* malloc serves every thread from cells of its own
Arena(t) == {i \in NodeIds : i % MaxTrees = t % MaxTrees}

ThreadMachine(t, heap, failAt) ==
    [Machine(heap, failAt) EXCEPT !.arena = Arena(t)]

\* the nodes a thread is reading or writing outside the atomics
Touching(o) ==
    (IF thr[o].pc \in {"copy", "drop"} THEN {thr[o].ref.node} ELSE {})
    \cup (IF thr[o].n2 # NULL THEN {thr[o].n2} ELSE {})
    \cup {thr[o].stack[j].node : j \in 1..Len(thr[o].stack)}

\* stores of thread t into nodes another thread is in the middle of using
Races(t, heap2) ==
    IF \E o \in Handles \ {t} : \E x \in Touching(o) :
          \/ heap2[x].items # nodes[x].items
          \/ heap2[x].children # nodes[x].children
          \/ heap2[x].used # nodes[x].used
    THEN {"data_race"} ELSE {}

\* node2->children[i] = node->children[i] without the fetch_add
copy_child_unreferenced(heap, n2, c) ==
    [heap EXCEPT ![n2].children = Append(@, c)]

\* btree_node_copy, one child: node2->children[i] = node->children[i];
\* btree_rc_fetch_add(&node2->children[i]->rc, 1)
copy_child(heap, n2, c) ==
    [heap EXCEPT ![n2].children = Append(@, c), ![c].rc = @ + 1]

\* the new values of the variables after a step of a thread
Moved(heap, tr, g, th) == [nodes |-> heap, tree |-> tr, ghost |-> g, thr |-> th]

Move(mv) ==
    /\ nodes' = mv.nodes
    /\ tree' = mv.tree
    /\ ghost' = mv.ghost
    /\ thr' = mv.thr
    /\ UNCHANGED <<last, ops, clones>>

\* thread t runs its operation on heap and tr up to the first
\* btree_cow_node_or that sees rc > 0, where it allocates the copy (the
\* operation fails when malloc has no cell left); when there is none the
\* operation completes.  btree_free goes to the btree_node_free of the root.
Proceed(t, heap, tr, th) ==
    IF th[t].call.op = "free"
    THEN IF tr[t].root = NULL
         THEN Moved(heap, [tr EXCEPT ![t] = NoTree], ghost,
                    [th EXCEPT ![t].pc = "done"])
         ELSE Moved(heap, tr, ghost,
                    [th EXCEPT ![t].pc = "drop",
                               ![t].ref = [parent |-> NULL, idx |-> NULL,
                                           node |-> tr[t].root]])
    ELSE With(RunOn(ThreadMachine(t, heap, 1), tr[t], th[t].call).m,
              LAMBDA m1 :
      IF m1.failed /\ m1.cowref # NoRef
      THEN With(btree_node_new(ThreadMachine(t, heap, 0),
                               heap[m1.cowref.node].leaf),
                LAMBDA a :
             IF a.right = NULL
             THEN Moved(heap, [tr EXCEPT ![t].oom = TRUE], ghost,
                        [th EXCEPT ![t].pc = "idle",
                                   ![t].expect = th[t].before])
             ELSE Moved(a.nodes, tr, ghost,
                        [th EXCEPT
                           ![t].pc = "copy", ![t].ref = m1.cowref,
                           ![t].n2 = a.right, ![t].i = 0,
                           ![t].overlap = @ \/
                               \E u \in Handles \ {t} :
                                   /\ th[u].pc \in {"copy", "drop"}
                                   /\ th[u].ref.node = m1.cowref.node]))
      ELSE With(RunOn(ThreadMachine(t, heap, 0), tr[t], th[t].call),
                LAMBDA o :
             Moved(o.m.nodes, [tr EXCEPT ![t] = o.t],
                   ghost \cup o.m.bad \cup Races(t, o.m.nodes)
                         \cup (IF o.m.cowref # NoRef
                               THEN {"copy_not_stepped"} ELSE {}),
                   [th EXCEPT ![t].pc = "idle",
                              ![t].expect = IF o.m.failed THEN th[t].before
                                            ELSE @])))

\* the thread calls an operation on its own tree
ThrBegin(t, c) ==
    /\ thr[t].pc = "idle"
    /\ thr[t].nops < MaxThreadOps
    /\ tree[t].live
    /\ \E o \in {Run(State, c)} :
          \E mv \in {Proceed(t, nodes, tree,
                              [thr EXCEPT ![t].call = c, ![t].nops = @ + 1,
                                          ![t].before = thr[t].expect,
                                          ![t].expect =
                                              btree_walk(o.m.nodes, o.t)])} :
              Move(mv)

\* btree_node_copy: the next child pointer and its fetch_add
ThrCopy(t) ==
    /\ thr[t].pc = "copy"
    /\ LET src == nodes[thr[t].ref.node]
       IN /\ thr[t].i < Len(src.children)
          /\ Move(Moved(copy_child(nodes, thr[t].n2,
                                   src.children[thr[t].i + 1]),
                        tree, ghost, [thr EXCEPT ![t].i = @ + 1]))

\* a drop that takes every owner for the last one
drop_is_last_always(heap, x) == TRUE

\* btree_node_free: the owner whose btree_rc_fetch_sub returns 0 is the last
drop_is_last(heap, x) == ~(heap[x].rc > 0)

\* btree_node_copy: the items, after the last child; then the entry of
\* btree_node_free: btree_rc_fetch_sub(&node->rc, 1) > 0 returns, otherwise
\* the thread is the last owner and goes on to free the node
ThrDrop(t) ==
    /\ \/ thr[t].pc = "drop"
       \/ /\ thr[t].pc = "copy"
          /\ thr[t].i >= Len(nodes[thr[t].ref.node].children)
    /\ LET x == thr[t].ref.node
           n2 == thr[t].n2
           heap1 == IF n2 = NULL THEN nodes
                    ELSE [nodes EXCEPT ![n2].items = nodes[x].items]
       IN Move(Moved([heap1 EXCEPT ![x].rc = @ - 1], tree,
                     ghost \cup (IF nodes[x].used THEN {}
                                 ELSE {"use_after_free"}),
                     [thr EXCEPT
                        ![t].pc = "free",
                        ![t].stack = IF ~drop_is_last(nodes, x) THEN << >>
                                     ELSE <<[node |-> x, i |-> 0]>>]))

\* btree_node_free, the loop over the children of the node on top of the
\* call stack, and btree->free(node) after the last child
ThrFree(t) ==
    /\ thr[t].pc = "free"
    /\ thr[t].stack # << >>
    /\ LET d == Len(thr[t].stack)
           top == thr[t].stack[d]
           node == nodes[top.node]
       IN IF top.i < Len(node.children)
          THEN LET c == node.children[top.i + 1]
                   up == [thr[t].stack EXCEPT ![d].i = @ + 1]
               IN Move(Moved([nodes EXCEPT ![c].rc = @ - 1], tree,
                             ghost \cup (IF nodes[c].used THEN {}
                                         ELSE {"use_after_free"}),
                             [thr EXCEPT ![t].stack =
                                IF ~drop_is_last(nodes, c) THEN up
                                ELSE Append(up, [node |-> c, i |-> 0])]))
          ELSE Move(Moved([nodes EXCEPT ![top.node] = FreeCell], tree,
                          ghost
                          \cup (IF node.used THEN {} ELSE {"double_free"})
                          \cup (IF \E o \in Handles \ {t} :
                                      top.node \in Touching(o)
                                THEN {"use_after_free"} ELSE {}),
                          [thr EXCEPT ![t].stack = SubSeq(@, 1, d - 1)]))

\* btree_cow_node_or: (bnode) = node2 once btree_node_free has returned, and
\* the operation goes on; btree_free: the struct is freed
ThrInstall(t) ==
    /\ thr[t].pc = "free"
    /\ thr[t].stack = << >>
    /\ LET ref == thr[t].ref
           n2 == thr[t].n2
           th == [thr EXCEPT ![t].ref = NoRef, ![t].n2 = NULL, ![t].i = 0]
           m == WrNode(Machine(nodes, 0), ref.parent,
                       [nodes[ref.parent] EXCEPT !.children[ref.idx + 1] = n2])
       IN IF thr[t].call.op = "free"
          THEN Move(Moved(nodes, [tree EXCEPT ![t] = NoTree], ghost,
                          [th EXCEPT ![t].pc = "done"]))
          ELSE \E mv \in {Proceed(t,
                                  IF ref.parent = NULL THEN nodes ELSE m.nodes,
                                  IF ref.parent = NULL
                                  THEN [tree EXCEPT ![t].root = n2] ELSE tree,
                                  th)} :
                  Move([mv EXCEPT
                          !.ghost = IF ref.parent = NULL THEN @
                                    ELSE @ \cup m.bad \cup Races(t, m.nodes)])

NextThreads ==
    \/ \E t \in Handles, op \in ThreadOps, k \in ThreadKeys :
          ThrBegin(t, Call(op, t,
                           IF op = "set" THEN pair(k, MaxVal)
                           ELSE IF op = "delete" THEN pair(k, 0)
                           ELSE NULL, 0))
    \/ \E t \in Handles : ThrCopy(t)
    \/ \E t \in Handles : ThrDrop(t)
    \/ \E t \in Handles : ThrFree(t)
    \/ \E t \in Handles : ThrInstall(t)

SpecThreads == InitThreads /\ [][NextThreads]_vars

(* ------------------- the sanity checks of the tests -------------------- *)
RECURSIVE node_deepcount(_, _)
RECURSIVE deepcount_kids(_, _)
deepcount_kids(heap, kids) ==
    IF kids = << >> THEN 0
    ELSE node_deepcount(heap, Head(kids)) + deepcount_kids(heap, Tail(kids))

node_deepcount(heap, id) ==
    nitems(heap[id]) + deepcount_kids(heap, heap[id].children)

btree_deepcount(heap, t) ==
    IF t.root # NULL THEN node_deepcount(heap, t.root) ELSE 0

\* every leaf below id lies at depth maxheight (the root is at depth 1)
RECURSIVE node_saneheight(_, _, _, _)
node_saneheight(heap, id, height, maxheight) ==
    IF heap[id].leaf THEN height = maxheight
    ELSE \A i \in 1..Len(heap[id].children) :
            node_saneheight(heap, heap[id].children[i], height + 1, maxheight)

btree_saneheight(heap, t) ==
    IF t.root # NULL THEN node_saneheight(heap, t.root, 1, t.height) ELSE TRUE

\* the root holds 1..max_items items, every other node min_items..max_items
RECURSIVE node_saneprops(_, _, _)
node_saneprops(heap, id, height) ==
    /\ IF height = 1
       THEN nitems(heap[id]) >= 1 /\ nitems(heap[id]) <= max_items
       ELSE nitems(heap[id]) >= min_items /\ nitems(heap[id]) <= max_items
    /\ \A i \in 1..Len(heap[id].children) :
          node_saneprops(heap, heap[id].children[i], height + 1)

btree_saneprops(heap, t) ==
    IF t.root # NULL THEN node_saneprops(heap, t.root, 1) ELSE TRUE

\* sane_walk: every item is greater than the one visited before it
sane_order(w) == \A i \in 1..(Len(w) - 1) : btree_compare(w[i], w[i + 1]) < 0


(* ------------------------------ claims --------------------------------- *)
\* C1: after every operation, on every live handle, the in-order walk of the
\* tree is strictly ascending under the comparator.
Inv_C1_WalkAscending ==
    \A h \in LiveHandles : sane_order(btree_walk(nodes, tree[h]))

\* a delete that removed an item from a tree of three levels has completed
Wit_C1 ==
    /\ last.op = "delete" /\ last.ret # NULL
    /\ last.pre.height = 3
    /\ Len(btree_walk(nodes, tree[last.h])) >= 7

\* C2: after every operation every non-root node holds between min_items and
\* max_items items, and the root holds at least one item exactly when the
\* tree is not empty.
Inv_C2_NodeFill ==
    \A h \in LiveHandles :
        /\ btree_saneprops(nodes, tree[h])
        /\ (tree[h].root # NULL) <=> (tree[h].count > 0)

\* a delete has merged nodes so that the tree lost a level
Wit_C2 ==
    /\ last.op = "delete" /\ last.ret # NULL
    /\ last.pre.height = 3 /\ tree[last.h].height = 2

\* C3: after every operation all leaves lie at depth height, and height is 0
\* when the tree is empty.
Inv_C3_Height ==
    \A h \in LiveHandles :
        /\ btree_saneheight(nodes, tree[h])
        /\ (tree[h].root = NULL) => (tree[h].height = 0)
        /\ (tree[h].root # NULL) => (tree[h].height >= 1)

\* a set has split the root of a two-level tree
Wit_C3 ==
    /\ last.op = "set" /\ ~last.failed
    /\ last.pre.height = 2 /\ tree[last.h].height = 3

\* C4: after every operation count equals the number of items reachable
\* from the root, also after the fast paths of load, pop_min and pop_max.
Inv_C4_Count ==
    \A h \in LiveHandles : btree_deepcount(nodes, tree[h]) = tree[h].count

\* a load, pop_min or pop_max has changed the count without allocating
Wit_C4 ==
    /\ last.op \in {"load", "pop_min", "pop_max"}
    /\ tree[last.h].count # last.pre.count
    /\ last.pre.height >= 2

\* C5: an operation on one handle leaves the count and the in-order walk of
\* every other live handle unchanged, so no sequence of mutations of a tree
\* is seen through its clone, nor the other way round.
Prop_C5_CloneIndependent ==
    [][\A h \in Handles :
         (tree[h].live /\ last'.h # h /\ last'.target # h)
         => /\ tree'[h].live
            /\ tree'[h].count = tree[h].count
            /\ btree_walk(nodes', tree'[h]) = btree_walk(nodes, tree[h])]_vars

\* a mutation that had to copy shared nodes has changed one of two trees
\* that had the same root
Wit_C5 ==
    /\ last.op \in Mutators /\ ~last.failed /\ last.allocs >= 2
    /\ \E h \in LiveHandles :
         /\ h # last.h
         /\ tree[h].root = last.pre.root
         /\ btree_walk(nodes, tree[h]) = last.walk0
         /\ btree_walk(nodes, tree[last.h]) # last.walk0

\* C6: no operation stores into the items, children or nitems of a node
\* whose rc is greater than 0; after a mutating operation that did not fail
\* the root it wrote through has rc 0.
Inv_C6_SharedImmutable ==
    /\ "write_shared" \notin ghost
    /\ (last.op \in Mutators /\ ~last.failed /\ tree[last.h].root # NULL)
        => nodes[tree[last.h].root].rc = 0

\* a delete on a tree that shared its root with a clone has rebalanced
\* (the tree lost a node) after copying the nodes it wrote
Wit_C6 ==
    /\ last.op = "delete" /\ last.ret # NULL /\ last.allocs >= 3
    /\ \E h \in LiveHandles : h # last.h /\ tree[h].root = last.pre.root
    /\ tree[last.h].height < last.pre.height

\* C7: a set that failed on an allocation leaves the in-order content and
\* the count as they were, and the same set without an allocation failure
\* then stores the item.
Inv_C7_SetOomUnchanged ==
    (last.op = "set" /\ last.failed)
    => /\ btree_walk(nodes, tree[last.h]) = last.walk0
       /\ tree[last.h].count = last.pre.count
       /\ \A o \in {Run(State, Call("set", last.h, last.k, 0))} :
             /\ ~o.m.failed /\ ~o.t.oom
             /\ \A w \in {btree_walk(o.m.nodes, o.t)} :
                   /\ \E i \in 1..Len(w) : w[i] = last.k
                   /\ o.t.count = Len(w)

\* a set has failed on its third allocation, after the root was split
Wit_C7 ==
    /\ last.op = "set" /\ last.failed /\ last.allocs = 3
    /\ tree[last.h].height = last.pre.height + 1

\* C8: a mutating operation that failed on an allocation, wherever on its
\* path, leaves a tree that satisfies the invariants H, B, O and C.
Inv_C8_OomKeepsInvariants ==
    (last.op \in Mutators /\ last.failed)
    => LET t == tree[last.h]
       IN /\ btree_saneheight(nodes, t)
          /\ btree_saneprops(nodes, t)
          /\ sane_order(btree_walk(nodes, t))
          /\ btree_deepcount(nodes, t) = t.count
          /\ btree_walk(nodes, t) = last.walk0

\* a delete has failed while copying the neighbour of the child it descends
\* into, after the root and that child were copied
Wit_C8 ==
    /\ last.op = "delete" /\ last.failed /\ last.allocs = 3
    /\ tree[last.h].root # last.pre.root

\* C9: after a mutating operation the oom flag is set exactly when the
\* operation failed on an allocation, whatever the flag was before, and a
\* failed operation returns no previous value.
Inv_C9_OomFlag ==
    last.op \in Mutators
    => /\ tree[last.h].oom = last.failed
       /\ last.failed => last.ret = NULL

\* an operation has succeeded on a tree whose oom flag was set
Wit_C9 == last.op \in Mutators /\ last.pre.oom /\ ~last.failed

\* C10: when the original and its clone are mutated by two threads at the
\* same time, sharing only the reference counts of nodes, no thread reads a
\* freed node, frees a node twice or stores into a node another thread is
\* using, and whenever a thread is between operations its tree holds exactly
\* the content its own operations produce and satisfies the order, fill,
\* height and count invariants.
Inv_C10_ThreadsIndependent ==
    /\ ghost = {}
    /\ \A t \in Handles :
         (thr[t].pc = "idle" /\ tree[t].live)
         => /\ btree_walk(nodes, tree[t]) = thr[t].expect
            /\ sane_order(btree_walk(nodes, tree[t]))
            /\ btree_saneprops(nodes, tree[t])
            /\ btree_saneheight(nodes, tree[t])
            /\ btree_deepcount(nodes, tree[t]) = tree[t].count

\* both threads have completed an operation that changed their tree, one of
\* them having started to copy a node while the other was copying or
\* dropping the same node
Wit_C10 ==
    /\ \A t \in Handles : thr[t].pc = "idle" /\ thr[t].nops >= 1
    /\ \E t \in Handles : thr[t].overlap
    /\ thr[1].expect # thr[2].expect
    /\ tree[1].root # tree[2].root
    /\ tree[1].count # tree[2].count

\* C12: after a set that did not fail, get of the item's key returns the item
\* that was set, whether the set replaced, inserted or split on its way.
Inv_C12_SetThenGet ==
    (last.op = "set" /\ ~last.failed)
    => \A v \in 0..MaxVal :
          btree_get(nodes, tree[last.h], pair(pair_key(last.k), v)) = last.k

\* a set that split the root on its way has completed, and get finds its
\* item below the new root
Wit_C12 ==
    /\ ops >= 1 /\ last.op = "set" /\ ~last.failed /\ last.ret = NULL
    /\ tree[last.h].height = last.pre.height + 1
    /\ btree_get(nodes, tree[last.h], last.k) = last.k
    /\ get0_loop_root_only(nodes, tree[last.h].root, last.k) = NULL

\* the items of w whose key is the key of item
Stored(w, item) == {i \in 1..Len(w) : btree_compare(w[i], item) = 0}

\* C13: a set of an item whose key is stored replaces the stored item,
\* returns the item that was stored, and leaves the count, the other items
\* and the shape of the tree as they were.
Inv_C13_SetReplaces ==
    (last.op = "set" /\ ~last.failed)
    => \A i \in Stored(last.walk0, last.k) :
          /\ last.ret = last.walk0[i]
          /\ tree[last.h].count = last.pre.count
          /\ tree[last.h].height = last.pre.height
          /\ btree_walk(nodes, tree[last.h])
                = [last.walk0 EXCEPT ![i] = last.k]
          /\ btree_shape(nodes, tree[last.h]) = last.shape0

\* a set has replaced an item of another val that sat in a branch node of a
\* tree of three levels
Wit_C13 ==
    /\ ops >= 1 /\ last.op = "set" /\ ~last.failed
    /\ last.pre.height = 3
    /\ last.ret # NULL /\ last.ret # last.k
    /\ get0_loop_root_only(nodes, tree[last.h].root, last.k) = last.k

\* C14: for a key that is not stored, set followed by delete of the key
\* returns the item that was set from the delete, after which get finds
\* nothing under the key and the count and the in-order content are those
\* from before the set.
Inv_C14_SetDelete ==
    (/\ last.op = "delete" /\ ~last.failed
     /\ last.before.op = "set" /\ ~last.before.failed
     /\ btree_compare(last.before.k, last.k) = 0
     /\ Stored(last.before.walk0, last.k) = {})
    => /\ last.ret = last.before.k
       /\ \A v \in 0..MaxVal :
             btree_get(nodes, tree[last.h], pair(pair_key(last.k), v)) = NULL
       /\ tree[last.h].count = last.before.pre.count
       /\ btree_walk(nodes, tree[last.h]) = last.before.walk0

\* a set of a new key that grew the tree by a level was followed by the
\* delete of that key
Wit_C14 ==
    /\ last.op = "delete" /\ ~last.failed
    /\ last.before.op = "set" /\ ~last.before.failed
    /\ btree_compare(last.before.k, last.k) = 0
    /\ Stored(last.before.walk0, last.k) = {}
    /\ last.pre.height = last.before.pre.height + 1
    /\ last.ret = last.before.k

\* C15: a clone that did not fail yields a handle whose count and in-order
\* walk are those of the tree it was cloned from, also for the empty tree.
Inv_C15_CloneEqual ==
    (last.op = "clone" /\ ~last.failed)
    => /\ tree[last.target].live /\ tree[last.h].live
       /\ tree[last.target].count = tree[last.h].count
       /\ tree[last.target].count = last.pre.count
       /\ btree_walk(nodes, tree[last.target]) = btree_walk(nodes, tree[last.h])
       /\ btree_walk(nodes, tree[last.target]) = last.walk0

\* a tree that was changed after it was built has been cloned
Wit_C15 ==
    /\ ops = 2 /\ last.op = "clone" /\ ~last.failed
    /\ last.target # last.h
    /\ tree[last.target].count >= MaxKey - 1
    /\ \E i \in 1..tree[last.target].count :
          pair_val(btree_walk(nodes, tree[last.target])[i]) = MaxVal

\* the items of w that are not less than pivot, and those not greater
AtLeast(w, pivot) == SelectSeq(w, LAMBDA x : btree_compare(x, pivot) >= 0)

AtMost(w, pivot) == SelectSeq(w, LAMBDA x : btree_compare(x, pivot) <= 0)

Reverse(w) == [i \in 1..Len(w) |-> w[Len(w) + 1 - i]]

\* C18: ascend from a pivot, with a callback that never returns false, calls
\* the callback with exactly the stored items not less than the pivot, in
\* ascending order: from the pivot's key when it is stored, from the next
\* greater key when it is not, with nothing when the pivot is above all
\* items and with all items when it is below all.
Inv_C18_Ascend ==
    (last.op = "ascend" /\ last.k # NULL /\ last.stop = 0)
    => /\ last.ret = AtLeast(last.walk0, last.k)
       /\ last.ok
       /\ sane_order(last.ret)
       /\ (Stored(last.walk0, last.k) # {})
            => btree_compare(last.ret[1], last.k) = 0

\* an ascend from a pivot that is not stored and lies between stored keys
\* of a tree of at least two levels
Wit_C18 ==
    /\ last.op = "ascend" /\ last.k # NULL /\ last.stop = 0
    /\ Stored(last.walk0, last.k) = {}
    /\ last.pre.height >= 2
    /\ Len(last.ret) >= 2 /\ Len(last.ret) < Len(last.walk0)

\* C19: descend from a pivot, with a callback that never returns false,
\* calls the callback with exactly the stored items not greater than the
\* pivot, in descending order, from the pivot's key when it is stored (in a
\* leaf or in a branch) and from the next lesser key when it is not.
Inv_C19_Descend ==
    (last.op = "descend" /\ last.k # NULL /\ last.stop = 0)
    => /\ last.ret = Reverse(AtMost(last.walk0, last.k))
       /\ last.ok
       /\ sane_order(Reverse(last.ret))
       /\ (Stored(last.walk0, last.k) # {})
            => btree_compare(last.ret[1], last.k) = 0

\* a descend from a pivot whose key is stored in the root of a tree of three
\* levels
Wit_C19 ==
    /\ last.op = "descend" /\ last.k # NULL /\ last.stop = 0
    /\ last.pre.height = 3
    /\ get0_loop_root_only(nodes, tree[last.h].root, last.k) # NULL
    /\ Len(last.ret) >= 2 /\ Len(last.ret) < Len(last.walk0)

\* the items a traversal visits when its callback never returns false
FullVisit(l) ==
    IF l.op = "ascend"
    THEN IF l.k = NULL THEN l.walk0 ELSE AtLeast(l.walk0, l.k)
    ELSE IF l.k = NULL THEN Reverse(l.walk0)
    ELSE Reverse(AtMost(l.walk0, l.k))

\* C20: in ascend, descend and the scan without pivot, the callback is not
\* called again once it has returned false (the call at which it did is the
\* last one) and the call then returns false; when the callback never
\* returns false (also on the empty tree) the call returns true.
Inv_C20_StopPropagates ==
    (last.op \in {"ascend", "descend"})
    => LET full == FullVisit(last)
           stopped == last.stop > 0 /\ Len(full) > last.stop
       IN /\ last.ret = SubSeq(full, 1, IF stopped THEN last.stop + 1
                                        ELSE Len(full))
          /\ last.ok = ~stopped

\* a scan of a tree of three levels was stopped by its callback after the
\* third item
Wit_C20 ==
    /\ last.op = "ascend" /\ last.k = NULL /\ last.stop = 3
    /\ ~last.ok /\ Len(last.ret) = 4
    /\ last.pre.height = 3

\* C16: a tree filled by btree_load with strictly ascending items, whatever
\* loads failed on an allocation and were repeated, holds the same items in
\* the same order and has the same count as a tree filled by btree_set with
\* the same items.
Inv_C16_LoadAsSet ==
    /\ btree_walk(nodes, tree[1]) = btree_walk(nodes, tree[2])
    /\ tree[1].count = tree[2].count
    /\ btree_deepcount(nodes, tree[1]) = tree[1].count
    /\ sane_order(btree_walk(nodes, tree[1]))
    /\ (last.op = "set" => last.ret = NULL /\ ~tree[1].oom)

\* every key has been loaded, the fast path and the fallback to set with
\* splits included, and the loaded tree has three levels
Wit_C16 ==
    /\ last.op = "set"
    /\ tree[1].count = MaxKey /\ tree[2].count = MaxKey
    /\ tree[1].height = 3
    /\ tree[1].root # tree[2].root

\* C17: btree_load is the same as btree_set for every input order: for items
\* given in any order, also an item not greater than the one loaded before
\* it and an item whose key is stored, load returns what set returns and
\* leaves the same content and the same count as set
Cex_C17_LoadAsSetAnyOrder ==
    /\ btree_walk(nodes, tree[1]) = btree_walk(nodes, tree[2])
    /\ tree[1].count = tree[2].count
    /\ (last.op = "load" => last.ret = last.ret2)


\* C11: after every handle, the original and all clones, has been freed, in
\* any order and after any operations, failed ones among them, every node
\* and every cloned item has been freed exactly once: no node is still
\* allocated and no clone alive, and nothing was freed twice, freed while
\* shared or written after it was freed
Inv_C11_FreedOnce ==
    /\ ghost \cap {"double_free", "free_shared", "use_after_free",
                   "item_double_free"} = {}
    /\ (\A h \in Handles : ~tree[h].live)
          => /\ \A i \in NodeIds : ~nodes[i].used
             /\ clones = NoClones

\* the clone is freed last, after the original, and an operation has failed
Wit_C11 ==
    /\ \A h \in Handles : ~tree[h].live
    /\ last.op = "free" /\ last.h = 2
    /\ last.pre.hooks /\ last.walk0 # << >>
    /\ last.fails


\* C23: pop_min (pop_max) returns the smallest (largest) stored item and
\* removes exactly that item, lowering count by one; on an empty tree it
\* returns NULL; pop_min called again and again returns the items in
\* ascending order (pop_max in descending order) until the tree is empty
Inv_C23_Pop ==
    (last.op \in {"pop_min", "pop_max"} /\ ~last.failed)
    => LET w0 == last.walk0
           w == btree_walk(nodes, tree[last.h])
           n == Len(w0)
           b == last.before
       IN IF n = 0
          THEN last.ret = NULL /\ w = << >> /\ tree[last.h].count = 0
          ELSE /\ last.ret = IF last.op = "pop_min" THEN w0[1] ELSE w0[n]
               /\ w = IF last.op = "pop_min" THEN Tail(w0)
                      ELSE SubSeq(w0, 1, n - 1)
               /\ tree[last.h].count = last.pre.count - 1
               /\ (b.op = last.op /\ ~b.failed /\ b.ret # NULL)
                     => IF last.op = "pop_min"
                        THEN btree_compare(b.ret, last.ret) < 0
                        ELSE btree_compare(b.ret, last.ret) > 0

\* pop_min has removed the last item of a tree, and pop_min called again on
\* the empty tree returns NULL
Wit_C23 ==
    /\ last.op = "pop_min" /\ ~last.failed
    /\ last.walk0 = << >> /\ last.ret = NULL
    /\ last.before.op = "pop_min" /\ last.before.ret # NULL
    /\ last.before.pre.count = 1


\* the nodes reachable from the nodes of ids through child pointers
RECURSIVE ReachSet(_, _)
ReachSet(heap, ids) ==
    LET more == ids \cup UNION {{heap[i].children[j] :
                                   j \in DOMAIN heap[i].children} : i \in ids}
    IN IF more = ids THEN ids ELSE ReachSet(heap, more)

\* the nodes of the tree of handle h
Reach(h) ==
    IF tree[h].live /\ tree[h].root # NULL
    THEN ReachSet(nodes, {tree[h].root}) ELSE {}

\* the references to node id: root pointers of live handles and child
\* pointers of nodes in use
Refs(id) ==
    Cardinality({h \in LiveHandles : tree[h].root = id})
    + Cardinality({pi \in NodeIds \X (1..(max_items + 1)) :
                     /\ nodes[pi[1]].used
                     /\ pi[2] \in DOMAIN nodes[pi[1]].children
                     /\ nodes[pi[1]].children[pi[2]] = id})

\* C29: after any sequence of operations every node reachable from a handle
\* has rc 0 or is reachable from another live handle as well; the rc of a
\* node is never negative and never more than the number of references to
\* the node other than one
Inv_C29_RcBounded ==
    /\ \A id \in NodeIds :
          nodes[id].used => nodes[id].rc >= 0 /\ nodes[id].rc <= Refs(id) - 1
    /\ \A h \in LiveHandles : \A id \in Reach(h) :
          \/ nodes[id].rc = 0
          \/ \E h2 \in LiveHandles : h2 # h /\ id \in Reach(h2)

\* a mutation through one handle has copied a shared root: below the two
\* roots a node with rc 1 belongs to both trees and a node with rc 0 to one
Wit_C29 ==
    /\ last.op \in Mutators /\ ~last.failed /\ last.allocs >= 1
    /\ LiveHandles = Handles
    /\ \E id \in Reach(1) \cap Reach(2) :
          nodes[id].rc = 1 /\ id \notin {tree[1].root, tree[2].root}
    /\ \E id \in Reach(last.h) :
          /\ nodes[id].rc = 0 /\ id # tree[last.h].root
          /\ \A h \in Handles : h # last.h => id \notin Reach(h)


\* the calls that remove an item through handle h with the first allocation
\* failing
Removals(h) ==
    {Call("delete", h, pair(k, 0), 1) : k \in Keys}
    \cup {Call("pop_min", h, NULL, 1), Call("pop_max", h, NULL, 1)}

\* C30: no mutation leaves the tree partly split or partly rotated.  A
\* split whose allocation fails leaves every node as it was, so a set that
\* failed leaves a well-formed tree with the same content; a delete or pop
\* that failed has moved no item, every allocation being a copy-on-write
\* made on the way down; merge and rotation allocate nothing, so a delete
\* or pop on a tree that shares no node allocates nothing
Inv_C30_NoPartialMutation ==
    /\ (last.op \in {"delete", "pop_min", "pop_max"} /\ last.failed)
         => /\ btree_shape(nodes, tree[last.h]) = last.shape0
            /\ btree_walk(nodes, tree[last.h]) = last.walk0
    /\ (last.op = "set" /\ last.failed)
         => /\ btree_saneprops(nodes, tree[last.h])
            /\ btree_saneheight(nodes, tree[last.h])
            /\ btree_deepcount(nodes, tree[last.h]) = last.pre.count
            /\ btree_walk(nodes, tree[last.h]) = last.walk0
    /\ \A h \in LiveHandles :
          /\ \A id \in Reach(h) :
                nitems(nodes[id]) = max_items
                => \E m \in {btree_node_split(Machine(nodes, 1), id)} :
                      m.right = NULL /\ m.nodes = nodes
          /\ (\A id \in Reach(h) : nodes[id].rc = 0)
                => \A c \in Removals(h) : \E o \in {Run(State, c)} :
                      ~o.m.failed /\ o.m.allocs = 0

\* a set has failed on the allocation of a split and left every node as it
\* was, and a delete on the tree it left merges two nodes without allocating
Wit_C30 ==
    /\ last.op = "set" /\ last.failed /\ last.allocs = 1
    /\ tree[last.h].root = last.pre.root /\ last.pre.root # NULL
    /\ nodes[tree[last.h].root].rc = 0
    /\ \E c \in Removals(last.h) : \E o \in {Run(State, c)} :
          /\ o.ret # NULL /\ o.m.allocs = 0
          /\ Len(btree_shape(o.m.nodes, o.t)) < Len(last.shape0)


Cex_C26_InvalidArgsRefused ==
    (last.op = "new" /\ (last.k.compare = NoFn \/ last.k.elsize = 0))
    => ~tree[1].live

Beyond(w, key, dir) ==
    {i \in 1..Len(w) : btree_compare(w[i], key) * dir > 0}

\* C21: a seek to a key that is not stored positions the iterator so that
\* the next it makes yields the smallest stored item greater than the key
\* (none: it returns false) and a prev yields the greatest stored item
\* smaller than the key (none: it returns false), also for a key below the
\* minimum or above the maximum
Cex_C21_SeekMissing ==
    LET w == btree_walk(nodes, tree[1])
        up == Beyond(w, last.k, 1)
        down == Beyond(w, last.k, -1)
    IN /\ (last.op = "seek" /\ \A i \in 1..Len(w) : w[i] # last.k)
            => IF up = {} THEN ~last.it.ret
               ELSE last.it.ret /\ last.it.item = w[Min(up)]
       /\ (/\ last.op = "prev" /\ last.prior = "seek"
           /\ \A i \in 1..Len(w) : w[i] # last.k)
            => IF down = {} THEN ~last.it.ret /\ ~last.it.crashed
               ELSE /\ last.it.ret /\ ~last.it.crashed
                    /\ last.it.item = w[Min(up \cup {Len(w) + 1}) - 1]

\* node_saneprops with the limits of that version
RECURSIVE bt_saneprops(_, _, _)
bt_saneprops(heap, id, height) ==
    /\ IF height = 1
       THEN nitems(heap[id]) >= 1 /\ nitems(heap[id]) <= bt_max_items
       ELSE /\ nitems(heap[id]) >= bt_min_items
            /\ nitems(heap[id]) <= bt_max_items
    /\ \A i \in 1..Len(heap[id].children) :
          bt_saneprops(heap, heap[id].children[i], height + 1)

\* btree_sane of that version
bt_sane(heap, t) ==
    /\ btree_saneheight(heap, t)
    /\ btree_deepcount(heap, t) = t.count
    /\ t.root # NULL => bt_saneprops(heap, t.root, 1)
    /\ sane_order(btree_walk(heap, t))
    /\ Len(btree_walk(heap, t)) = t.count

\* the items of w the iteration op from the pivot covers, in the order it
\* visits them, and the items it does not cover, in ascending order
Covered(w, pivot, op) ==
    LET hit(x) == \/ pivot = NULL
                  \/ op = "action_ascend" /\ btree_compare(x, pivot) >= 0
                  \/ op = "action_descend" /\ btree_compare(x, pivot) <= 0
        in == SelectSeq(w, hit)
    IN IF op = "action_ascend" THEN in ELSE Reverse(in)

NotCovered(w, pivot, op) ==
    LET miss(x) == /\ pivot # NULL
                   /\ \/ op = "action_ascend" /\ btree_compare(x, pivot) < 0
                      \/ op = "action_descend" /\ btree_compare(x, pivot) > 0
    IN SelectSeq(w, miss)

\* C24: an action iteration whose callback answers Delete terminates: every
\* turn of the loop that answers BTSTARTOVER leaves count lower than it
\* found it, the restarts made so far never exceed the items removed so
\* far, and an iteration that has been entered is left.
Prop_C24_RestartsBounded ==
    /\ [][(last.running /\ last'.restarts # last.restarts)
            => tree'[1].count < tree[1].count]_vars
    /\ [](last.restarts <= last.count0 - tree[1].count \/ last.op = "new")
    /\ [](last.restarts <= last.count0)
    /\ (last.running ~> ~last.running)

\* an iteration over a tree of three levels that deleted every item has
\* ended after restarts and deletions in place
Wit_C24 ==
    /\ last.op = "action_ascend" /\ last.iter = "pair_delete"
    /\ ~last.running
    /\ last.height0 = 3
    /\ last.restarts >= 3
    /\ last.restarts < last.count0
    /\ tree[1].count = 0

\* C25: when action_ascend (action_descend) from a pivot with a callback
\* that answers Delete for every item has returned, the callback has been
\* given exactly the items >= pivot (<= pivot), each once and in order, the
\* tree holds exactly the other items, unchanged, and btree_sane holds.
Inv_C25_ActionDeleteRange ==
    (last.op \in {"action_ascend", "action_descend"}
       /\ last.iter = "pair_delete" /\ ~last.running) =>
      /\ last.seen = Covered(last.walk0, last.k, last.op)
      /\ btree_walk(nodes, tree[1]) = NotCovered(last.walk0, last.k, last.op)
      /\ tree[1].count = last.count0 - Len(last.seen)
      /\ bt_sane(nodes, tree[1])

\* an action_descend from a stored pivot inside a tree of three levels has
\* removed some items and kept others, with restarts
Wit_C25 ==
    /\ last.op = "action_descend" /\ last.iter = "pair_delete"
    /\ ~last.running
    /\ last.height0 = 3
    /\ last.restarts >= 2
    /\ Len(last.seen) > last.restarts
    /\ tree[1].count >= 3
    /\ \E i \in 1..Len(last.walk0) : last.walk0[i] = last.k

\* C32 as stated: a set (or a load, which falls back to set) changes height
\* by exactly the number of root splits it made.
Cex_C32_HeightOnlyByRootSplit ==
    (last.op \in {"set", "load"}) =>
        tree[last.h].height = last.pre.height + Len(last.splits)

\* C32, amended: a set changes height by one for each root split and by one
\* when it creates the root of an empty tree, and by nothing else; it splits
\* the root at most once, and the root it leaves after a split holds the
\* promoted median alone, with the old root and the new right node as its
\* children.
Inv_C32_HeightAtRoot ==
    (last.op \in {"set", "load"}) =>
        LET t == tree[last.h]
            created == IF last.pre.root = NULL /\ t.root # NULL THEN 1 ELSE 0
        IN /\ t.height = last.pre.height + Len(last.splits) + created
           /\ Len(last.splits) <= 1
           /\ \A i \in 1..Len(last.splits) :
                 /\ t.root = last.splits[i].root
                 /\ ~nodes[t.root].leaf
                 /\ nodes[t.root].items = <<last.splits[i].median>>
                 /\ nodes[t.root].children =
                        <<last.splits[i].old, last.splits[i].right>>

\* a set has split the root of a tree of two levels that a clone shares
Wit_C32 ==
    /\ last.op = "set" /\ ~last.failed
    /\ Len(last.splits) = 1
    /\ last.pre.height = 2 /\ tree[last.h].height = 3
    /\ \E h \in LiveHandles : h # last.h /\ tree[h].height = 2

\* the sequence w without its item of the key of item
Without(w, item) ==
    LET other(x) == btree_compare(x, item) # 0 IN SelectSeq(w, other)

\* C33: a delete or pop never leaves a root without items: when the removal
\* empties the root, which then had a single item, the root is freed and
\* its only child becomes the root (nothing if the root was a leaf) and
\* height is one lower; in every other case height stays; this holds for
\* the pops that remove in place and for a root shared with a clone, whose
\* tree stays as it was.
Inv_C33_RootDropped ==
    (last.op \in {"delete", "pop_min", "pop_max"}) =>
        LET t == tree[last.h]
            pre == last.pre
        IN /\ t.root # NULL => nitems(nodes[t.root]) >= 1
           /\ t.height \in {pre.height, pre.height - 1}
           /\ btree_saneheight(nodes, t)
           /\ (t.root = NULL) = (t.height = 0)
           /\ t.height = pre.height - 1 =>
                 /\ ~last.failed /\ last.ret # NULL
                 /\ last.shape0[1].nitems = 1
                 /\ last.shape0[1].leaf = (t.root = NULL)
                 /\ t.root # pre.root
                 /\ t.count = pre.count - 1
                 /\ btree_walk(nodes, t) = Without(last.walk0, last.ret)
                 /\ \/ ~nodes[pre.root].used
                    \/ \E h \in LiveHandles : h # last.h /\ tree[h].root = pre.root
           /\ (last.failed \/ last.ret = NULL) => t.height = pre.height
           /\ \A id \in NodeIds :
                 nodes[id].used => \E h \in LiveHandles : id \in Reach(h)
           /\ ghost \cap {"double_free", "free_shared", "use_after_free",
                          "write_shared"} = {}

\* a pop_min through a handle whose root was shared with a clone has
\* dropped the root of three levels, and the clone still has its three
\* levels
Wit_C33 ==
    /\ last.op = "pop_min" /\ ~last.failed
    /\ last.pre.height = 3 /\ tree[last.h].height = 2
    /\ \E h \in LiveHandles :
          /\ h # last.h
          /\ tree[h].root = last.pre.root
          /\ tree[h].height = 3


\* the sequence s without its j-th element
RemoveAt(s, j) == SubSeq(s, 1, j - 1) \o SubSeq(s, j + 1, Len(s))

\* C34: rebalancing around separator i merges the two children iff
\* left.nitems + right.nitems < max_items and otherwise moves one item from
\* the fuller sibling through the parent; in every case the items and the
\* children of left, separator, right keep their in-order sequence and the
\* rest of the parent is untouched; a merged node has at most max_items
\* items and the right node is freed; after a move both children have at
\* least min_items items.
Inv_C34_Rebalance ==
    \A n \in 1..Len(last.rebals) :
       LET e == last.rebals[n]
           sep0 == e.node0.items[e.i + 1]
           flat0 == e.left0.items \o <<sep0>> \o e.right0.items
           kids0 == e.left0.children \o e.right0.children
       IN /\ (e.kind = "merge") <=>
                (nitems(e.left0) + nitems(e.right0) < max_items)
          /\ e.kind = "merge" =>
                /\ e.left1.items = flat0
                /\ e.left1.children = kids0
                /\ nitems(e.left1) <= max_items
                /\ ~e.right1.used
                /\ e.node1.items = RemoveAt(e.node0.items, e.i + 1)
                /\ e.node1.children = RemoveAt(e.node0.children, e.i + 2)
          /\ e.kind # "merge" =>
                /\ e.left1.items \o <<e.node1.items[e.i + 1]>>
                      \o e.right1.items = flat0
                /\ e.left1.children \o e.right1.children = kids0
                /\ e.node1.children = e.node0.children
                /\ \A j \in 1..nitems(e.node0) :
                      j # e.i + 1 => e.node1.items[j] = e.node0.items[j]
                /\ nitems(e.node1) = nitems(e.node0)
                /\ nitems(e.left1) >= min_items
                /\ nitems(e.right1) >= min_items
                /\ nitems(e.left1) <= max_items
                /\ nitems(e.right1) <= max_items
          /\ e.kind = "left_to_right" =>
                /\ nitems(e.left0) > nitems(e.right0)
                /\ nitems(e.left1) = nitems(e.left0) - 1
                /\ nitems(e.right1) = nitems(e.right0) + 1
          /\ e.kind = "right_to_left" =>
                /\ nitems(e.right0) > nitems(e.left0)
                /\ nitems(e.left1) = nitems(e.left0) + 1
                /\ nitems(e.right1) = nitems(e.right0) - 1

\* one delete has merged two children, another has moved an item from the
\* right sibling, another from the left sibling
Wit_C34_Merge ==
    \E n \in 1..Len(last.rebals) : last.rebals[n].kind = "merge"

Wit_C34_RightToLeft ==
    \E n \in 1..Len(last.rebals) :
       /\ last.rebals[n].kind = "right_to_left"
       /\ ~last.rebals[n].left0.leaf

Wit_C34_LeftToRight ==
    \E n \in 1..Len(last.rebals) :
       /\ last.rebals[n].kind = "left_to_right"
       /\ ~last.rebals[n].left0.leaf

Wit_C34_LeafLeftToRight ==
    \E n \in 1..Len(last.rebals) :
       /\ last.rebals[n].kind = "left_to_right"
       /\ last.rebals[n].left0.leaf


Inv_C35_LoadLeansLeft ==
    IF IsOld
    THEN last.op = "load" =>
           /\ \A n \in 1..Len(last.cuts) :
                 LET c == last.cuts[n]
                 IN /\ c.lean_left
                    /\ c.right = tree[1].min_items
                    /\ c.left = c.n0 - tree[1].min_items - 1
           /\ \A n \in 1..Len(last.cuts2) :
                 LET c == last.cuts2[n]
                 IN /\ ~c.lean_left
                    /\ c.left = c.n0 \div 2
                    /\ c.right = c.n0 - (c.n0 \div 2) - 1
    ELSE /\ last.op = "load" =>
              \A n \in 1..Len(last.cuts) :
                 LET c == last.cuts[n]
                 IN /\ c.right = min_items
                    /\ c.left = c.n0 - min_items - 1
         /\ last.op = "set" =>
              \A n \in 1..Len(last.cuts) :
                 LET c == last.cuts[n]
                 IN /\ c.n0 = max_items
                    /\ c.left = max_items \div 2
                    /\ c.right = c.n0 - (max_items \div 2) - 1

\* the same item made the loaded tree and the set tree split their full
\* root, and the loaded tree kept more items in the left node
Wit_C35 ==
    /\ IsOld /\ last.op = "load"
    /\ Len(last.cuts) = 1 /\ Len(last.cuts2) = 1
    /\ last.cuts[1].left > last.cuts2[1].left
    /\ last.cuts[1].right = tree[1].min_items

\* a load of src/btree.h has split a node on its way through btree_set0
Wit_C35_Header ==
    /\ ~IsOld /\ last.op = "load" /\ Len(last.cuts) > 0


\* btree_delete0 with BTREE_POPFRONT or BTREE_POPBACK on the tree of handle
\* h, no allocation failing
GenericPop(h, act) ==
    btree_delete0([Machine(nodes, 0) EXCEPT !.hooks = tree[h].hooks,
                                            !.clones = clones,
                                            !.alloc = tree[h].malloc],
                  tree[h], act, NULL)

\* the number of items of the leaf a pop takes its item from
PopLeaf(op, shape) ==
    IF op = "pop_min"
    THEN shape[Min({i \in 1..Len(shape) : shape[i].leaf})].nitems
    ELSE shape[Len(shape)].nitems

\* the shape after one item left that leaf in place
PopInPlace(op, shape) ==
    LET i == IF op = "pop_min"
             THEN Min({j \in 1..Len(shape) : shape[j].leaf})
             ELSE Len(shape)
    IN [shape EXCEPT ![i].nitems = @ - 1]

\* what a step that is a pop_min or a pop_max owes to C38
PopAsDelete ==
    LET l == last'
        h == l.h
        g == GenericPop(h, IF l.op = "pop_min" THEN "POPFRONT" ELSE "POPBACK")
        shape == btree_shape(nodes, tree[h])
    IN (l.op \in {"pop_min", "pop_max"} /\ ~l.failed /\ tree[h].root # NULL)
       => /\ l.ret = g.ret
          /\ l.ret # NULL
          /\ btree_walk(nodes', tree'[h]) = btree_walk(g.m.nodes, g.t)
          /\ btree_shape(nodes', tree'[h]) = btree_shape(g.m.nodes, g.t)
          /\ tree'[h].count = g.t.count
          /\ tree'[h].height = g.t.height
          /\ clones' = g.m.clones
          /\ IF PopLeaf(l.op, shape) > min_items
             THEN /\ btree_shape(nodes', tree'[h]) = PopInPlace(l.op, shape)
                  /\ l.rebals = << >>
             ELSE \/ l.rebals # << >>
                  \/ tree'[h].height < tree[h].height

\* C38: the fast pop_min/pop_max path removes an item in place only when
\* the target leaf has more than min_items items and otherwise falls back
\* to the generic delete (which rebalances or drops the root); both paths
\* return the same item and leave the same content, shape, count and height
\* as the generic delete would.
Prop_C38_PopAsDelete == [][PopAsDelete]_vars

\* a pop_min has removed in place from a leaf of a tree of three levels,
\* and before it a pop_min of the same tree went through the generic delete
Wit_C38 ==
    /\ last.op = "pop_min" /\ ~last.failed /\ last.ret # NULL
    /\ last.rebals = << >> /\ last.pre.height = tree[last.h].height
    /\ last.before.op = "pop_min" /\ ~last.before.failed
    /\ last.before.pre.height > last.pre.height


\* C37: copying a node is one level deep: the copy holds the same items and
\* the same child pointers, each child's rc is raised by exactly one and no
\* other rc moves; if the allocation or the item-clone hook fails part-way
\* the child rc bumps are undone, the items cloned so far are freed and so
\* is the new node, leaving all reference counts, cells and item clones as
\* before the copy.
Inv_C37_CopyOneLevel ==
    \A n \in 1..Len(last.copies) :
       LET e == last.copies[n]
           kids == {e.node.children[j] : j \in 1..Len(e.node.children)}
       IN IF e.copy # NULL
          THEN /\ e.node1.children = e.node.children
               /\ e.node1.items = e.node.items
               /\ e.node1.leaf = e.node.leaf
               /\ e.node1.rc = 0
               /\ Cardinality(kids) = Len(e.node.children)
               /\ \A i \in NodeIds :
                     e.rc1[i] = e.rc0[i] + (IF i \in kids THEN 1 ELSE 0)
               /\ e.used1 = e.used0 \cup {e.copy}
               /\ e.copy \notin e.used0
               /\ last.pre.hooks =>
                     \A it \in DOMAIN e.clones0 :
                        e.clones1[it] = e.clones0[it] +
                           Cardinality({j \in 1..nitems(e.node) :
                                           e.node.items[j] = it})
          ELSE /\ e.rc1 = e.rc0
               /\ e.used1 = e.used0
               /\ e.clones1 = e.clones0

\* the item-clone hook failed after it had cloned an item of a shared
\* branch whose children had been referenced
Wit_C37 ==
    \E n \in 1..Len(last.copies) :
       /\ last.copies[n].copy = NULL
       /\ ~last.copies[n].node.leaf
       /\ last.copies[n].cloned > 0

\* a shared branch has been copied
Wit_C37_Copied ==
    \E n \in 1..Len(last.copies) :
       /\ last.copies[n].copy # NULL
       /\ ~last.copies[n].node.leaf


\* no thread is inside an operation
Quiet == \A t \in Handles : thr[t].pc \in {"idle", "done"}

Wit_C31_Drop ==
    /\ Quiet
    /\ \E t \in Handles : thr[t].pc = "done" /\ ~tree[t].live
    /\ \E t \in Handles : thr[t].overlap /\ thr[t].pc = "idle"
                           /\ thr[t].nops >= 1 /\ tree[t].live


\* the frames name a downward path from the root: every frame but the last
\* is a branch whose index is the child the next frame holds
ValidPath(heap, t, stack) ==
    /\ Len(stack) <= t.height
    /\ stack # << >> => stack[1].node = t.root
    /\ \A j \in 1..Len(stack) :
          /\ heap[stack[j].node].used
          /\ j < Len(stack) =>
                /\ ~heap[stack[j].node].leaf
                /\ stack[j].index \in 0..nitems(heap[stack[j].node])
                /\ stack[j + 1].node =
                      heap[stack[j].node].children[stack[j].index + 1]

\* the top frame designates an item
TopIsSlot(heap, stack) ==
    /\ stack # << >>
    /\ stack[Len(stack)].index \in
          0..(nitems(heap[stack[Len(stack)].node]) - 1)

\* btree_iter_first and then btree_iter_next until it returns false, at
\* most n times: the items yielded, and the iterator at the end
RECURSIVE iter_scan(_, _, _, _, _)
iter_scan(heap, t, it, seen, n) ==
    IF ~it.ret \/ it.ub \/ n = 0 THEN [seen |-> seen, it |-> it]
    ELSE iter_scan(heap, t, btree_iter_next(heap, t, it),
                   Append(seen, it.item), n - 1)

ScanFromFirst(heap, t) ==
    iter_scan(heap, t, btree_iter_first(heap, t, NewIter), << >>,
              t.count + 1)

\* what C39 says of the iterator after a call
IterPathOk(it) ==
    /\ ~it.ub /\ ~it.crashed
    /\ ValidPath(nodes, tree[1], it.stack)
    /\ (it.seeked /\ ~it.atend /\ ~it.atstart)
          => TopIsSlot(nodes, it.stack)
    /\ it.ret => /\ TopIsSlot(nodes, it.stack)
                 /\ it.item = btree_get_item_at(
                        nodes[it.stack[Len(it.stack)].node],
                        it.stack[Len(it.stack)].index)

\* first and repeated next yield every item once in ascending order and
\* then false
ScanOk ==
    LET r == ScanFromFirst(nodes, tree[1])
    IN /\ r.seen = btree_walk(nodes, tree[1])
       /\ ~r.it.ret /\ ~r.it.ub
       /\ tree[1].root # NULL => r.it.atend

\* C39: for an iterator on an unmodified tree, after any sequence of first,
\* last, seek, next and prev calls (including next after the end was
\* signalled and prev after the start was signalled) the stack frames name
\* a valid downward path of at most height frames and, when seeked and not
\* at either end, the top frame designates a real item slot; first followed
\* by repeated next yields every item once in ascending order and then
\* false.
Cex_C39_IterPath ==
    /\ last.op \in IterOps => IterPathOk(last.it)
    /\ ScanOk

\* the same for the calls that are not made with an empty stack on a
\* seeked iterator
Inv_C39_IterPathInside ==
    /\ (last.op \in IterOps /\ ~last.it.ub /\ ~last.it.crashed)
          => IterPathOk(last.it)
    /\ ScanOk

\* the sequence w with every item twice
Doubled(w) == [i \in 1..(2 * Len(w)) |-> w[(i + 1) \div 2]]

\* the turn of the loop just made began at a restart: its pivot was
\* spares[1], and the call before it was the one answered with Delete
Restarted == last.op \in {"action_ascend", "action_descend"}
             /\ last.pivotp = SparePtr(1)

\* the restart after the slow route of Delete: the pivot the turn began with
\* was the item deleted last, which the tree no longer held, and the first
\* item the turn gave to the callback was the first item left after that
\* one (ascend) or before it (descend); no call was made when there was none
RestartResumes ==
    Restarted =>
      LET rest == Covered(last.walkp, last.pivot0, last.op)
      IN /\ last.from >= 1
         /\ last.pivot0 = last.seen[last.from]
         /\ \A i \in 1..Len(last.walkp) :
               btree_compare(last.walkp[i], last.pivot0) # 0
         /\ IF rest = << >> THEN Len(last.seen) = last.from
            ELSE /\ Len(last.seen) > last.from
                 /\ last.seen[last.from + 1] = rest[1]

\* an iteration with pair_rekey has returned
RekeyDone ==
    /\ last.op \in {"action_ascend", "action_descend"}
    /\ last.iter = "pair_rekey" /\ ~last.running

\* C40 as stated: in the Delete fallback the pivot in the spare still holds
\* the deleted key when the traversal restarts, so that the restart resumes
\* at the first remaining item after (ascend) or before (descend) the
\* deleted one; and an Update whose edited key differs from the stored key
\* never writes to the tree and neither skips nor repeats other items: the
\* callback is given every item of the range in order, the item it rekeyed
\* once more, and no other item again.
Cex_C40_RestartAndRekey ==
    /\ RestartResumes
    /\ RekeyDone =>
         /\ btree_walk(nodes, tree[1]) = last.walk0
         /\ last.seen = Doubled(Covered(last.walk0, last.k, last.op))

\* what holds of C40: the restart resumes next to the deleted item; an
\* Update with another key leaves the tree as it was, no item of the range
\* is skipped and none outside of it is given to the callback; in a tree
\* of a single leaf each item is given again right after its Update and no
\* other time.
Inv_C40_RestartAndRekeyInLeaf ==
    /\ RestartResumes
    /\ RekeyDone =>
         /\ btree_walk(nodes, tree[1]) = last.walk0
         /\ tree[1].count = last.count0
         /\ last.restarts = 0
         /\ {last.seen[i] : i \in 1..Len(last.seen)} =
               {x \in {last.walk0[i] : i \in 1..Len(last.walk0)} :
                   \E j \in 1..Len(Covered(last.walk0, last.k, last.op)) :
                       Covered(last.walk0, last.k, last.op)[j] = x}
         /\ last.height0 <= 1 =>
               last.seen = Doubled(Covered(last.walk0, last.k, last.op))

====
